---- MODULE Spec2Model ----
(***************************************************************************)
(* Interval heap (interval_heap.hpp) and the priority_deque adaptor        *)
(* (priority_deque.inl) of nmcclatchey/Priority-Deque.                     *)
(*                                                                         *)
(* Arrays are TLA+ sequences; the code's zero-based offset i is the        *)
(* sequence position i + 1 (At / Put).  An algorithm of interval_heap.hpp  *)
(* is an operator on a record st = [a, t, ex]:                             *)
(*   a   the whole backing array (the range is its first n slots),         *)
(*   t   the number of comparator calls left until the comparator throws   *)
(*       (0: it never throws),                                             *)
(*   ex  TRUE when the call left by an exception.                          *)
(* A slot whose value was moved out of holds Hole until it is assigned.    *)
(***************************************************************************)
EXTENDS Integers, Sequences, FiniteSets, TLC

VARIABLES sequence_, compare_, other, pre, op, out, blocks

vars == <<sequence_, compare_, other, pre, op, out, blocks>>

\* ------------------------------------------------------------------ bounds
MaxVal == 3
MaxLen == 8
MaxMerge == 2
MaxArr == 7
\* The comparator throws on its t-th call, t in 1..MaxThrow, or never.
MaxThrow == 8

Values == 1..MaxVal

\* The value left behind in a moved-from slot.
Hole == 0

\* ----------------------------------------------------------- element access
\* The comparator: std::less<int>.
less(x, y) == x < y

\* *(first + i)
At(a, i) == a[i + 1]

\* *(first + i) = v
Put(a, i, v) == [a EXCEPT ![i + 1] = v]

\* std::swap(*(first + i), *(first + j))
Swap(a, i, j) == [a EXCEPT ![i + 1] = a[j + 1], ![j + 1] = a[i + 1]]

\* C++ integer division (truncates toward zero).
CDiv(x, y) == IF x >= 0 THEN x \div y ELSE -((-x) \div y)

\* x | 1 and x ^ 1 on two's-complement integers.
Or1(x) == IF x % 2 = 0 THEN x + 1 ELSE x
Xor1(x) == IF x % 2 = 0 THEN x + 1 ELSE x - 1

\* ------------------------------------------------------ comparator counting
\* The next comparator call throws.
Throwing(st) == st.t = 1

\* A comparator call that returned.
Tick(st) == [st EXCEPT !.t = IF @ > 0 THEN @ - 1 ELSE 0]

\* A comparator call that threw.
Raise(st) == [st EXCEPT !.t = 0, !.ex = TRUE]

\* ------------------------------------------------------------------ sift_up
\* ((index / 2 - 1) | 1) ^ (left_bound ? 1 : 0)
Parent(index, left_bound) ==
  IF left_bound THEN Xor1(Or1(CDiv(index, 2) - 1)) ELSE Or1(CDiv(index, 2) - 1)

\* r with the index the loop stopped at.
WithIndex(r, index) == [a |-> r.a, t |-> r.t, ex |-> r.ex, index |-> index]

\* *(first + index) = std::move_if_noexcept(*(first + from))
Move(a, index, from) == Put(Put(a, index, At(a, from)), from, Hole)

\* Mutant of sift_up_loop: the element also moves past a parent it is
\* equivalent to.
RECURSIVE sift_up_loop_past_equal(_, _, _, _, _)
sift_up_loop_past_equal(left_bound, st, index, limbo, limit_child) ==
  IF index < limit_child THEN WithIndex(st, index)
  ELSE IF Throwing(st) THEN WithIndex(Raise(st), index)
  ELSE IF (IF left_bound
             THEN ~less(At(st.a, Parent(index, left_bound)), limbo)
             ELSE ~less(limbo, At(st.a, Parent(index, left_bound))))
         THEN sift_up_loop_past_equal(left_bound,
                [a |-> Move(st.a, index, Parent(index, left_bound)),
                 t |-> Tick(st).t, ex |-> FALSE],
                Parent(index, left_bound), limbo, limit_child)
         ELSE WithIndex(Tick(st), index)

\* The while loop of sift_up; the result carries the final index.
RECURSIVE sift_up_loop(_, _, _, _, _)
sift_up_loop(left_bound, st, index, limbo, limit_child) ==
  IF index < limit_child THEN WithIndex(st, index)
  ELSE IF Throwing(st) THEN WithIndex(Raise(st), index)
  ELSE IF (IF left_bound
             THEN less(limbo, At(st.a, Parent(index, left_bound)))
             ELSE less(At(st.a, Parent(index, left_bound)), limbo))
         THEN sift_up_loop(left_bound,
                [a |-> Move(st.a, index, Parent(index, left_bound)),
                 t |-> Tick(st).t, ex |-> FALSE],
                Parent(index, left_bound), limbo, limit_child)
         ELSE WithIndex(Tick(st), index)

\* Mutant of sift_up_rollback: limbo goes back to origin and the elements
\* moved down by the loop stay where they are.
sift_up_rollback_short(left_bound, a, origin, index, limbo) ==
  Put(a, origin, limbo)

\* The catch block of sift_up: swap limbo back through the visited slots.
RECURSIVE sift_up_rollback(_, _, _, _, _)
sift_up_rollback(left_bound, a, origin, index, limbo) ==
  IF origin > index
    THEN sift_up_rollback(left_bound, Put(a, origin, limbo),
                          Parent(origin, left_bound), index, At(a, origin))
    ELSE Put(a, origin, limbo)

\* Mutant of sift_up_end: the catch block leaves limbo where the loop stopped.
sift_up_end_no_rollback(left_bound, r, origin, limbo) ==
  [a |-> Put(r.a, r.index, limbo), t |-> r.t, ex |-> r.ex]

\* The end of sift_up once the loop r is over: roll back and re-throw, or
\* get the element out of limbo.
sift_up_end(left_bound, r, origin, limbo) ==
  IF r.ex
    THEN [a |-> sift_up_rollback(left_bound, r.a, origin, r.index, limbo),
          t |-> r.t, ex |-> TRUE]
    ELSE [a |-> Put(r.a, r.index, limbo), t |-> r.t, ex |-> FALSE]

\* Mutant of sift_up: the element is never taken out of limbo.
sift_up_limbo_lost(left_bound, st, origin, limit_child) ==
  [a |-> sift_up_loop(left_bound, [st EXCEPT !.a = Put(@, origin, Hole)],
                      origin, At(st.a, origin), limit_child).a,
   t |-> st.t, ex |-> FALSE]

sift_up(left_bound, st, origin, limit_child) ==
  sift_up_end(left_bound,
              sift_up_loop(left_bound, [st EXCEPT !.a = Put(@, origin, Hole)],
                           origin, At(st.a, origin), limit_child),
              origin, At(st.a, origin))

\* ---------------------------------------------------------------- sift_leaf
\* Mutant of SwapBack: the catch block re-throws without the swap.
SwapBack_skipped(r, i, j) == r

\* catch (...) { swap(*(first + i), *(first + j)); throw; }
SwapBack(r, i, j) == IF r.ex THEN [r EXCEPT !.a = Swap(@, i, j)] ELSE r

\* Mutant of sift_leaf_max_co_index: the companion is always the paired left
\* bound, also when the index has a child interval.
sift_leaf_max_co_index_paired(index_end, index) == Xor1(index)

\* Index of the corresponding left-bound (min) element.
sift_leaf_max_co_index(index_end, index) ==
  IF CDiv(index_end - 1, 2) < index THEN Xor1(index) ELSE index * 2

\* sift_leaf_max with its co_index computed.
sift_leaf_max_at(st, index, co_index, limit_child) ==
  IF Throwing(st) THEN Raise(st)
  ELSE IF less(At(st.a, index), At(st.a, co_index))
         THEN SwapBack(sift_up(TRUE,
                               [a |-> Swap(st.a, index, co_index),
                                t |-> Tick(st).t, ex |-> FALSE],
                               co_index, limit_child),
                       index, co_index)
         ELSE sift_up(FALSE, Tick(st), index, limit_child)

\* Mutant of sift_leaf_max: the element is never switched to the min side.
sift_leaf_max_own_side(st, index_end, index, limit_child) ==
  sift_up(FALSE, st, index, limit_child)

sift_leaf_max(st, index_end, index, limit_child) ==
  sift_leaf_max_at(st, index, sift_leaf_max_co_index(index_end, index),
                   limit_child)

\* Index of the corresponding element, moved to the parent when past the end.
sift_leaf_min_co_index(index_end, index) ==
  IF Or1(index) >= index_end THEN Or1(CDiv(Or1(index), 2) - 1) ELSE Or1(index)

\* sift_leaf_min with its co_index computed.
sift_leaf_min_at(st, index, co_index, limit_child) ==
  IF Throwing(st) THEN Raise(st)
  ELSE IF less(At(st.a, co_index), At(st.a, index))
         THEN SwapBack(sift_up(FALSE,
                               [a |-> Swap(st.a, index, co_index),
                                t |-> Tick(st).t, ex |-> FALSE],
                               co_index, limit_child),
                       index, co_index)
         ELSE sift_up(TRUE, Tick(st), index, limit_child)

sift_leaf_min(st, index_end, index, limit_child) ==
  IF Or1(index) >= index_end /\ Or1(index) = 1 THEN st
  ELSE sift_leaf_min_at(st, index, sift_leaf_min_co_index(index_end, index),
                        limit_child)

\* Mutant of sift_leaf: the parity of the index is ignored.
sift_leaf_always_min(st, index_end, index) ==
  sift_leaf_min(st, index_end, index, 2)

sift_leaf(st, index_end, index) ==
  IF index % 2 = 1 THEN sift_leaf_max(st, index_end, index, 2)
                   ELSE sift_leaf_min(st, index_end, index, 2)

\* ---------------------------------------------------------------- sift_down
\* index * 2 + (left_bound ? 2 : 1)
Child(index, left_bound) == index * 2 + (IF left_bound THEN 2 ELSE 1)

\* Mutant of sift_down_end_parent: no adjustment on the min side when the
\* length is a multiple of 4.
sift_down_end_parent_unadjusted(left_bound, index_end) ==
  CDiv(index_end, 2) - 1

\* One past the last element with two children.
sift_down_end_parent(left_bound, index_end) ==
  CDiv(index_end, 2) - (IF left_bound /\ index_end % 4 = 0 THEN 2 ELSE 1)

\* The child the while loop of sift_down descends to.
sift_down_pick(left_bound, a, child) ==
  IF less(At(a, child + (IF left_bound THEN 2 ELSE 0)),
          At(a, child + (IF left_bound THEN 0 ELSE 2)))
    THEN child + 2 ELSE child

\* The while loop of sift_down.  When the comparator throws, limbo is put
\* back at the current index before the exception leaves the loop.
RECURSIVE sift_down_loop(_, _, _, _, _)
sift_down_loop(left_bound, st, index, limbo, end_parent) ==
  IF ~(index < end_parent) THEN WithIndex(st, index)
  ELSE IF Throwing(st)
         THEN WithIndex(Raise([st EXCEPT !.a = Put(@, index, limbo)]), index)
  ELSE sift_down_loop(left_bound,
         [a |-> Move(st.a, index,
                     sift_down_pick(left_bound, st.a, Child(index, left_bound))),
          t |-> Tick(st).t, ex |-> FALSE],
         sift_down_pick(left_bound, st.a, Child(index, left_bound)),
         limbo, end_parent)

\* Pull the moving element out of limbo and finish at the leaf.
sift_down_finish(left_bound, st, index_end, index, limbo, limit_child) ==
  WithIndex(IF left_bound
              THEN sift_leaf_min([st EXCEPT !.a = Put(@, index, limbo)],
                                 index_end, index, limit_child)
              ELSE sift_leaf_max([st EXCEPT !.a = Put(@, index, limbo)],
                                 index_end, index, limit_child),
            index)

\* Mutant of sift_down_tail: after the exchange with the singleton the index
\* is not advanced to it, so the rollback starts a step short.
sift_down_tail_index_kept(left_bound, st, index_end, index, limbo, end_parent, limit_child) ==
  LET child == Child(index, left_bound)
      cochild == Child(index, left_bound) + 1
      has_child == /\ index <= end_parent + (IF left_bound THEN 0 ELSE 1)
                   /\ Child(index, left_bound) < index_end
      singleton == /\ index <= end_parent + (IF left_bound THEN 0 ELSE 1)
                   /\ Child(index, left_bound) < index_end
                   /\ ~left_bound
                   /\ Child(index, left_bound) + 1 # index_end
  IN IF singleton /\ Throwing(st)
       THEN WithIndex(Raise([st EXCEPT !.a = Put(@, index, limbo)]), index)
     ELSE IF singleton /\ less(At(st.a, child), At(st.a, cochild))
       THEN WithIndex(sift_leaf_min(
                        [a |-> Put(Put(st.a, index, At(st.a, cochild)),
                                   cochild, limbo),
                         t |-> Tick(st).t, ex |-> FALSE],
                        index_end, cochild, limit_child),
                      index)
     ELSE sift_down_finish(left_bound,
            [a |-> IF has_child THEN Move(st.a, index, child) ELSE st.a,
             t |-> IF singleton THEN Tick(st).t ELSE st.t,
             ex |-> FALSE],
            index_end, IF has_child THEN child ELSE index, limbo, limit_child)

\* The special case when index has exactly one child, and the finish.
\* has_child: the one child exists; singleton: on the max side the slot after
\* the child exists too and is compared with the child.
sift_down_tail(left_bound, st, index_end, index, limbo, end_parent, limit_child) ==
  LET child == Child(index, left_bound)
      cochild == Child(index, left_bound) + 1
      has_child == /\ index <= end_parent + (IF left_bound THEN 0 ELSE 1)
                   /\ Child(index, left_bound) < index_end
      singleton == /\ index <= end_parent + (IF left_bound THEN 0 ELSE 1)
                   /\ Child(index, left_bound) < index_end
                   /\ ~left_bound
                   /\ Child(index, left_bound) + 1 # index_end
  IN IF singleton /\ Throwing(st)
       THEN WithIndex(Raise([st EXCEPT !.a = Put(@, index, limbo)]), index)
     ELSE IF singleton /\ less(At(st.a, child), At(st.a, cochild))
       THEN WithIndex(sift_leaf_min(
                        [a |-> Put(Put(st.a, index, At(st.a, cochild)),
                                   cochild, limbo),
                         t |-> Tick(st).t, ex |-> FALSE],
                        index_end, cochild, limit_child),
                      cochild)
     ELSE sift_down_finish(left_bound,
            [a |-> IF has_child THEN Move(st.a, index, child) ELSE st.a,
             t |-> IF singleton THEN Tick(st).t ELSE st.t,
             ex |-> FALSE],
            index_end, IF has_child THEN child ELSE index, limbo, limit_child)

\* Mutant of sift_down_rollback: the catch block undoes the last step only.
sift_down_rollback_one_step(left_bound, a, index, origin) ==
  IF index > origin THEN Swap(a, Parent(index, left_bound), index) ELSE a

\* The outer catch block of sift_down.
RECURSIVE sift_down_rollback(_, _, _, _)
sift_down_rollback(left_bound, a, index, origin) ==
  IF index > origin
    THEN sift_down_rollback(left_bound,
                            Swap(a, Parent(index, left_bound), index),
                            Parent(index, left_bound), origin)
    ELSE a

\* Mutant of sift_down_after_loop: when the comparator throws in the loop
\* the moving element is not pulled out of limbo.
sift_down_after_loop_limbo_dropped(left_bound, d, index_end, limbo, end_parent, limit_child) ==
  IF d.ex THEN [d EXCEPT !.a = Put(@, d.index, Hole)]
  ELSE sift_down_tail(left_bound, [a |-> d.a, t |-> d.t, ex |-> FALSE],
                      index_end, d.index, limbo, end_parent, limit_child)

\* The part of sift_down after the while loop d.
sift_down_after_loop(left_bound, d, index_end, limbo, end_parent, limit_child) ==
  IF d.ex THEN d
  ELSE sift_down_tail(left_bound, [a |-> d.a, t |-> d.t, ex |-> FALSE],
                      index_end, d.index, limbo, end_parent, limit_child)

\* Mutant of sift_down_end: the catch block re-throws without rolling back.
sift_down_end_no_rollback(left_bound, r, origin) ==
  [a |-> r.a, t |-> r.t, ex |-> r.ex]

\* The end of sift_down: roll back and re-throw, or return.
sift_down_end(left_bound, r, origin) ==
  IF r.ex
    THEN [a |-> sift_down_rollback(left_bound, r.a, r.index, origin),
          t |-> r.t, ex |-> TRUE]
    ELSE [a |-> r.a, t |-> r.t, ex |-> FALSE]

sift_down(left_bound, st, index_end, origin, limit_child) ==
  sift_down_end(left_bound,
    sift_down_after_loop(left_bound,
      sift_down_loop(left_bound, [st EXCEPT !.a = Put(@, origin, Hole)],
                     origin, At(st.a, origin),
                     sift_down_end_parent(left_bound, index_end)),
      index_end, At(st.a, origin),
      sift_down_end_parent(left_bound, index_end), limit_child),
    origin)

\* --------------------------------------------------- heap-level operations
\* Mutant of update_interval_heap: the min side is repaired whatever the
\* parity of the index.
update_interval_heap_min_side(st, index_end, index) ==
  sift_down(TRUE, st, index_end, index, 2)

update_interval_heap(st, index_end, index) ==
  sift_down(index % 2 = 0, st, index_end, index, 2)

push_interval_heap(st, index_end) == sift_leaf(st, index_end, index_end - 1)

\* Mutant of pop_interval_heap: the element is not moved to the back.
pop_interval_heap_no_swap(st, index_end, index) ==
  update_interval_heap(st, index_end - 1, index)

\* Mutant of pop_interval_heap: the heap is repaired over the whole range,
\* the slot of the removed element included.
pop_interval_heap_whole_range(st, index_end, index) ==
  SwapBack(update_interval_heap([st EXCEPT !.a = Swap(@, index, index_end - 1)],
                                index_end, index),
           index_end - 1, index)

pop_interval_heap(st, index_end, index) ==
  SwapBack(update_interval_heap([st EXCEPT !.a = Swap(@, index, index_end - 1)],
                                index_end - 1, index),
           index_end - 1, index)

\* Mutant of pop_interval_heap_min: the element swapped to the front is not
\* sifted down.
pop_interval_heap_min_no_sift(st, index_end) ==
  [st EXCEPT !.a = Swap(@, 0, index_end - 1)]

pop_interval_heap_min(st, index_end) ==
  SwapBack(sift_down(TRUE, [st EXCEPT !.a = Swap(@, 0, index_end - 1)],
                     index_end - 1, 0, 2),
           index_end - 1, 0)

\* Mutant of pop_interval_heap_max: the element swapped into the max bound
\* is not sifted down.
pop_interval_heap_max_no_sift(st, index_end) ==
  IF index_end <= 2 THEN st
  ELSE [st EXCEPT !.a = Swap(@, 1, index_end - 1)]

\* Mutant of pop_interval_heap_max: only ranges of at most one element are
\* left alone.
pop_interval_heap_max_from_two(st, index_end) ==
  IF index_end <= 1 THEN st
  ELSE SwapBack(sift_down(FALSE, [st EXCEPT !.a = Swap(@, 1, index_end - 1)],
                          index_end - 1, 1, 2),
                index_end - 1, 1)

pop_interval_heap_max(st, index_end) ==
  IF index_end <= 2 THEN st
  ELSE SwapBack(sift_down(FALSE, [st EXCEPT !.a = Swap(@, 1, index_end - 1)],
                          index_end - 1, 1, 2),
                index_end - 1, 1)

\* The while loop of sort_interval_heap, and its step once the pop r is over.
RECURSIVE sort_interval_heap_loop(_, _)
RECURSIVE sort_interval_heap_step(_, _)
sort_interval_heap_loop(st, cursor) ==
  IF cursor = 0 THEN st
  ELSE sort_interval_heap_step(pop_interval_heap_max(st, cursor), cursor)

sort_interval_heap_step(r, cursor) ==
  IF r.ex THEN r ELSE sort_interval_heap_loop(r, cursor - 1)

\* Mutant of sort_interval_heap: the first pop is skipped.
sort_interval_heap_short(st, index_end) ==
  IF index_end = 0 THEN st ELSE sort_interval_heap_loop(st, index_end - 1)

sort_interval_heap(st, index_end) == sort_interval_heap_loop(st, index_end)

\* Mutant of order_interval: the bounds are swapped whatever their order.
order_interval_always_swap(st, index, coindex) ==
  IF Throwing(st) THEN Raise(st)
  ELSE [a |-> Swap(st.a, coindex, index), t |-> Tick(st).t, ex |-> FALSE]

\* if (compare(*(first + coindex), *(first + index))) swap(...)
order_interval(st, index, coindex) ==
  IF Throwing(st) THEN Raise(st)
  ELSE IF less(At(st.a, coindex), At(st.a, index))
         THEN [a |-> Swap(st.a, coindex, index), t |-> Tick(st).t, ex |-> FALSE]
         ELSE Tick(st)

\* The leaf loop of make_full and its step once the interval r is ordered;
\* the result carries the final index.
RECURSIVE make_full_leaves(_, _, _)
RECURSIVE make_full_leaves_step(_, _, _)
make_full_leaves(st, index, end_parent) ==
  IF ~(index > end_parent) THEN WithIndex(st, index)
  ELSE make_full_leaves_step(order_interval(st, index, Or1(index)), index,
                             end_parent)

make_full_leaves_step(r, index, end_parent) ==
  IF r.ex THEN WithIndex(r, index)
  ELSE make_full_leaves(r, index - 2, end_parent)

\* Mutant of then_sift_down: the sift may climb up to the root interval.
then_sift_down_to_root(left_bound, r, index_end, index, limit_child) ==
  IF r.ex THEN r ELSE sift_down(left_bound, r, index_end, index, 2)

\* sift_down unless an earlier step r of the same iteration threw.
then_sift_down(left_bound, r, index_end, index, limit_child) ==
  IF r.ex THEN r ELSE sift_down(left_bound, r, index_end, index, limit_child)

\* The do-while loop of make_full (index0 is index before the decrements)
\* and its loop test once the iteration r is over.
RECURSIVE make_full_inner(_, _, _)
RECURSIVE make_full_inner_step(_, _, _)
make_full_inner(st, index_end, index0) ==
  make_full_inner_step(
    then_sift_down(TRUE,
      then_sift_down(FALSE,
        order_interval(st, index0 - 2, index0 - 1),
        index_end, index0 - 1, (index0 - 1) * 2),
      index_end, index0 - 2, (index0 - 1) * 2),
    index_end, index0 - 2)

make_full_inner_step(r, index_end, index) ==
  IF r.ex \/ ~(index >= 2) THEN r ELSE make_full_inner(r, index_end, index)

\* The part of make_full after the leaf loop l.
make_full_after_leaves(l, index_end) ==
  IF l.ex THEN [a |-> l.a, t |-> l.t, ex |-> TRUE]
  ELSE make_full_inner([a |-> l.a, t |-> l.t, ex |-> FALSE], index_end,
                       l.index + 2)

make_full(st, index_end) ==
  make_full_after_leaves(
    make_full_leaves(st, (index_end - (index_end % 2)) - 2,
                     CDiv(index_end, 2) - 1),
    index_end)

\* Mutant of make_interval_heap: ranges of two elements are left alone too.
make_interval_heap_from_three(st, index_end) ==
  IF index_end < 3 THEN st ELSE make_full(st, index_end)

\* The arrays of the model are shorter than kThreadMin (1 << 5), so threads
\* is 1 and the single-threaded make_full is the path taken.
make_interval_heap(st, index_end) ==
  IF index_end < 2 THEN st ELSE make_full(st, index_end)

\* Mutant of is_interval_heap_check: an element at an even index is not
\* compared with the min bound of its parent.
is_interval_heap_check_no_min(a, t, index) ==
  LET parent == Or1(CDiv(index, 2) - 1)
      cs == (IF index % 2 = 1 THEN << <<index, index - 1>> >> ELSE << >>)
            \o (IF index >= 2 THEN << <<parent, index>> >> ELSE << >>)
      fails == {k \in 1..Len(cs) : less(At(a, cs[k][1]), At(a, cs[k][2]))}
      made == IF fails = {} THEN Len(cs)
              ELSE CHOOSE k \in fails : \A j \in fails : k <= j
  IN IF t > 0 /\ t <= made THEN [res |-> "throw", t |-> 0]
     ELSE [res |-> IF fails = {} THEN "ok" ELSE "bad",
           t |-> IF t > 0 THEN t - made ELSE 0]

\* The body of the while loop of is_interval_heap_until for one index:
\* "bad" (return cursor), "ok" (++index) or "throw"; t is the count left.
is_interval_heap_check(a, t, index) ==
  LET parent == Or1(CDiv(index, 2) - 1)
      \* the comparisons in the order the code makes them
      cs == (IF index % 2 = 1 THEN << <<index, index - 1>> >> ELSE << >>)
            \o (IF index >= 2
                  THEN IF index % 2 = 1 THEN << <<parent, index>> >>
                       ELSE << <<parent, index>>, <<index, parent - 1>> >>
                  ELSE << >>)
      fails == {k \in 1..Len(cs) : less(At(a, cs[k][1]), At(a, cs[k][2]))}
      firstFail == IF fails = {} THEN Len(cs) + 1
                   ELSE CHOOSE k \in fails : \A j \in fails : k <= j
      made == IF fails = {} THEN Len(cs) ELSE firstFail
  IN IF t > 0 /\ t <= made THEN [res |-> "throw", t |-> 0]
     ELSE [res |-> IF fails = {} THEN "ok" ELSE "bad",
           t |-> IF t > 0 THEN t - made ELSE 0]

RECURSIVE is_interval_heap_until_loop(_, _, _, _)
is_interval_heap_until_loop(a, t, index_end, index) ==
  IF ~(index < index_end) THEN index_end
  ELSE LET c == is_interval_heap_check(a, t, index)
       IN IF c.res = "ok"
            THEN is_interval_heap_until_loop(a, c.t, index_end, index + 1)
            ELSE index

\* Mutant of is_interval_heap_until: a comparison that throws is taken to
\* have returned normally.
is_interval_heap_until_throw_ignored(st, index_end) ==
  is_interval_heap_until_loop(st.a, 0, index_end, 0)

\* Returns the offset of the returned iterator.
is_interval_heap_until(st, index_end) ==
  is_interval_heap_until_loop(st.a, st.t, index_end, 0)

is_interval_heap(st, index_end) ==
  is_interval_heap_until(st, index_end) = index_end

\* ------------------------------------------------------------ observations
\* The number of slots of a that hold x.
Count(a, x) == Cardinality({k \in DOMAIN a : a[k] = x})

\* The arrays a and b hold the same multiset of elements.
SameElements(a, b) ==
  /\ Len(a) = Len(b)
  /\ \A x \in {a[k] : k \in DOMAIN a} \cup {b[k] : k \in DOMAIN b} :
       Count(a, x) = Count(b, x)

\* All arrays of at most n elements.
ArraysUpTo(n) == UNION {[1..k -> Values] : k \in 0..n}

\* x is a least / greatest element of the array a.
IsLeast(x, a) == \A k \in DOMAIN a : ~less(a[k], x)
IsGreatest(x, a) == \A k \in DOMAIN a : ~less(x, a[k])

\* The interval-heap property over the first n slots of a: interval k is the
\* slots (2k, 2k+1), its parent is interval (k-1)/2.
ParentInterval(k) == (k - 1) \div 2
IntervalOrder(a, n) ==
  \A k \in 0..(n - 1) : (2 * k + 1 < n) => ~less(At(a, 2 * k + 1), At(a, 2 * k))
MinNesting(a, n) ==
  \A k \in 1..(n - 1) :
    (2 * k < n) => ~less(At(a, 2 * k), At(a, 2 * ParentInterval(k)))
MaxNesting(a, n) ==
  \A k \in 1..(n - 1) :
    /\ (2 * k + 1 < n) =>
         ~less(At(a, 2 * ParentInterval(k) + 1), At(a, 2 * k + 1))
    /\ (2 * k + 1 = n) =>
         ~less(At(a, 2 * ParentInterval(k) + 1), At(a, 2 * k))
IntervalHeap(a, n) ==
  IntervalOrder(a, n) /\ MinNesting(a, n) /\ MaxNesting(a, n)

\* A reference comparison sort (insertion sort).
RECURSIVE InsertSorted(_, _)
InsertSorted(s, x) ==
  IF s = << >> THEN <<x>>
  ELSE IF less(x, Head(s)) THEN <<x>> \o s
       ELSE <<Head(s)>> \o InsertSorted(Tail(s), x)

RECURSIVE ReferenceSort(_)
ReferenceSort(a) ==
  IF a = << >> THEN << >>
  ELSE InsertSorted(ReferenceSort(SubSeq(a, 1, Len(a) - 1)), a[Len(a)])

\* ------------------------------------------------------------ the adaptor
(***************************************************************************)
(* sequence_ is the deque's backing sequence.  compare_ names the deque's   *)
(* comparator, "less" (std::less, the default) or "greater"; other is a    *)
(* second deque of the same type, the argument of swap: its sequence_ and  *)
(* its compare_.  pre and op are history variables: the array before the   *)
(* last call, and the call (its name, its arguments, the element it        *)
(* removed, whether it threw).  Calls are synchronous: ret is the return   *)
(* to the caller, which drops the record of the call; the next call starts *)
(* from there.                                                             *)
(***************************************************************************)
NoArg == 0 - 1

\* The second deque where no call takes one: empty, with the default
\* comparator.
NoOther == [sequence_ |-> << >>, compare_ |-> "less"]

\* No call of make_block is in progress.
NoBlocks == << >>

Op(name, i, v, rng, ex) ==
  [name |-> name, i |-> i, v |-> v, rng |-> rng, ex |-> ex]

Idle == Op("idle", NoArg, NoArg, << >>, FALSE)

St(a, t) == [a |-> a, t |-> t, ex |-> FALSE]

\* Mutant of pop_back: the last element stays in the sequence.
pop_back_kept(a) == a

\* sequence_.pop_back()
pop_back(a) == SubSeq(a, 1, Len(a) - 1)

\* sequence_.back()
back(a) == a[Len(a)]

minimum == At(sequence_, 0)

\* Mutant of maximum: the front of the sequence.
maximum_front == At(sequence_, 0)

maximum == IF Len(sequence_) = 1 THEN At(sequence_, 0) ELSE At(sequence_, 1)

size == Len(sequence_)

empty == Len(sequence_) = 0

Init ==
  /\ sequence_ = << >>
  /\ pre = << >>
  /\ op = Idle
  /\ out = << >>
  /\ compare_ = "less"
  /\ other = NoOther
  /\ blocks = NoBlocks

ret ==
  /\ op.name # "idle"
  /\ op' = Idle
  /\ pre' = << >>
  /\ UNCHANGED <<sequence_, out>>
  /\ UNCHANGED <<compare_, other, blocks>>

\* push (const value_type&) and push (value_type&&)
push(value, t) ==
  /\ op.name = "idle"
  /\ Len(sequence_) < MaxLen
  /\ LET r == push_interval_heap(St(Append(sequence_, value), t),
                                 Len(sequence_) + 1)
     IN /\ sequence_' = IF r.ex THEN pop_back(r.a) ELSE r.a
        /\ op' = Op("push", NoArg, value, << >>, r.ex)
  /\ pre' = sequence_
  /\ out' = out
  /\ UNCHANGED <<compare_, other, blocks>>

emplace(value, t) ==
  /\ op.name = "idle"
  /\ Len(sequence_) < MaxLen
  /\ LET r == push_interval_heap(St(Append(sequence_, value), t),
                                 Len(sequence_) + 1)
     IN /\ sequence_' = IF r.ex THEN pop_back(r.a) ELSE r.a
        /\ op' = Op("emplace", NoArg, value, << >>, r.ex)
  /\ pre' = sequence_
  /\ out' = out
  /\ UNCHANGED <<compare_, other, blocks>>

\* The effect of pop_minimum on the backing sequence: the array left, the
\* element that pop_back removed, and whether the call threw.
do_pop_minimum(a, t) ==
  LET r == pop_interval_heap_min(St(a, t), Len(a))
  IN [a |-> IF r.ex THEN r.a ELSE pop_back(r.a),
      v |-> IF r.ex THEN NoArg ELSE back(r.a),
      ex |-> r.ex]

do_pop_maximum(a, t) ==
  LET r == pop_interval_heap_max(St(a, t), Len(a))
  IN [a |-> IF r.ex THEN r.a ELSE pop_back(r.a),
      v |-> IF r.ex THEN NoArg ELSE back(r.a),
      ex |-> r.ex]

pop_minimum(t) ==
  /\ op.name = "idle"
  /\ ~empty
  /\ LET r == do_pop_minimum(sequence_, t)
     IN /\ sequence_' = r.a
        /\ op' = Op("pop_minimum", NoArg, r.v, << >>, r.ex)
  /\ pre' = sequence_
  /\ out' = out
  /\ UNCHANGED <<compare_, other, blocks>>

pop_maximum(t) ==
  /\ op.name = "idle"
  /\ ~empty
  /\ LET r == do_pop_maximum(sequence_, t)
     IN /\ sequence_' = r.a
        /\ op' = Op("pop_maximum", NoArg, r.v, << >>, r.ex)
  /\ pre' = sequence_
  /\ out' = out
  /\ UNCHANGED <<compare_, other, blocks>>

clear ==
  /\ op.name = "idle"
  /\ sequence_' = << >>
  /\ op' = Op("clear", NoArg, NoArg, << >>, FALSE)
  /\ pre' = sequence_
  /\ out' = out
  /\ UNCHANGED <<compare_, other, blocks>>

\* merge (InputIterator first, InputIterator last)
merge(rng, t) ==
  /\ op.name = "idle"
  /\ Len(sequence_) + Len(rng) <= MaxLen
  /\ LET r == make_interval_heap(St(sequence_ \o rng, t),
                                 Len(sequence_) + Len(rng))
     IN /\ sequence_' = IF r.ex THEN SubSeq(r.a, 1, Len(r.a) - Len(rng))
                                ELSE r.a
        /\ op' = Op("merge", NoArg, NoArg, rng, r.ex)
  /\ pre' = sequence_
  /\ out' = out
  /\ UNCHANGED <<compare_, other, blocks>>

\* priority_deque (InputIterator first, InputIterator last, comp, seq) with
\* an empty seq: a newly constructed deque takes the place of the old one.
priority_deque_range(rng, t) ==
  /\ op.name = "idle"
  /\ LET r == make_interval_heap(St(rng, t), Len(rng))
     IN /\ sequence_' = IF r.ex THEN << >> ELSE r.a
        /\ op' = Op("construct", NoArg, NoArg, rng, r.ex)
  /\ pre' = << >>
  /\ out' = out
  /\ UNCHANGED <<compare_, other, blocks>>

\* update (const_iterator, const value_type&)
update(ind, value, t) ==
  /\ op.name = "idle"
  /\ 0 <= ind /\ ind < Len(sequence_)
  /\ LET r == update_interval_heap(St(Put(sequence_, ind, value), t),
                                   Len(sequence_), ind)
     IN /\ sequence_' = r.a
        /\ op' = Op("update", ind, value, << >>, r.ex)
  /\ pre' = sequence_
  /\ out' = out
  /\ UNCHANGED <<compare_, other, blocks>>

\* erase (const_iterator)
erase(index, t) ==
  /\ op.name = "idle"
  /\ 0 <= index /\ index < Len(sequence_)
  /\ LET r == pop_interval_heap(St(sequence_, t), Len(sequence_), index)
     IN /\ sequence_' = IF r.ex THEN r.a ELSE pop_back(r.a)
        /\ op' = Op("erase", index, IF r.ex THEN NoArg ELSE back(r.a),
                    << >>, r.ex)
  /\ pre' = sequence_
  /\ out' = out
  /\ UNCHANGED <<compare_, other, blocks>>

\* The comparator never throws.
Next ==
  \/ \E v \in Values : push(v, 0)
  \/ \E v \in Values : emplace(v, 0)
  \/ pop_minimum(0)
  \/ pop_maximum(0)
  \/ clear
  \/ \E rng \in ArraysUpTo(MaxMerge) : merge(rng, 0)
  \/ \E rng \in ArraysUpTo(MaxMerge) : priority_deque_range(rng, 0)
  \/ \E i \in 0..(MaxLen - 1), v \in Values : update(i, v, 0)
  \/ \E i \in 0..(MaxLen - 1) : erase(i, 0)
  \/ ret

Spec == Init /\ [][Next]_vars

\* ------------------------------------------- the algorithms on plain arrays
(***************************************************************************)
(* SpecAlg applies the algorithms of interval_heap.hpp to every array of   *)
(* at most MaxArr elements and to the array of scenario S1.  pre keeps the *)
(* input.  After make_interval_heap the array is either sorted, or it is   *)
(* the backing sequence of a deque that is emptied from one end while out  *)
(* records what minimum() / maximum() returned before each pop.            *)
(***************************************************************************)
S1Input == <<3, 1, 4, 1, 5, 9, 2, 6, 5, 3, 5>>

AlgInit ==
  /\ sequence_ \in ArraysUpTo(MaxArr) \cup {S1Input}
  /\ pre = sequence_
  /\ op = Op("input", NoArg, NoArg, << >>, FALSE)
  /\ out = << >>
  /\ compare_ = "less"
  /\ other = NoOther
  /\ blocks = NoBlocks

alg_make_interval_heap ==
  /\ op.name = "input"
  /\ sequence_' = make_interval_heap(St(sequence_, 0), Len(sequence_)).a
  /\ op' = Op("make", NoArg, NoArg, << >>, FALSE)
  /\ UNCHANGED <<pre, out>>
  /\ UNCHANGED <<compare_, other, blocks>>

alg_sort_interval_heap ==
  /\ op.name = "make"
  /\ sequence_' = sort_interval_heap(St(sequence_, 0), Len(sequence_)).a
  /\ op' = Op("sort", NoArg, NoArg, << >>, FALSE)
  /\ UNCHANGED <<pre, out>>
  /\ UNCHANGED <<compare_, other, blocks>>

drain_minimum ==
  /\ op.name \in {"make", "drain_minimum"}
  /\ ~empty
  /\ LET r == do_pop_minimum(sequence_, 0)
     IN /\ sequence_' = r.a
        /\ op' = Op("drain_minimum", NoArg, r.v, << >>, r.ex)
  /\ out' = Append(out, minimum)
  /\ pre' = pre
  /\ UNCHANGED <<compare_, other, blocks>>

drain_maximum ==
  /\ op.name \in {"make", "drain_maximum"}
  /\ ~empty
  /\ LET r == do_pop_maximum(sequence_, 0)
     IN /\ sequence_' = r.a
        /\ op' = Op("drain_maximum", NoArg, r.v, << >>, r.ex)
  /\ out' = Append(out, maximum)
  /\ pre' = pre
  /\ UNCHANGED <<compare_, other, blocks>>

\* make_interval_heap applied to the array it has just produced; out keeps
\* the array before the second application.
alg_make_interval_heap_again ==
  /\ op.name = "make"
  /\ sequence_' = make_interval_heap(St(sequence_, 0), Len(sequence_)).a
  /\ op' = Op("make_again", NoArg, NoArg, << >>, FALSE)
  /\ out' = sequence_
  /\ pre' = pre
  /\ UNCHANGED <<compare_, other, blocks>>

\* is_interval_heap_until and is_interval_heap on the input, with a
\* comparator that throws on its t-th call (never when t is 0): op.i is the
\* offset returned, op.v is t, op.rng holds what is_interval_heap returned.
alg_is_interval_heap_until(t) ==
  /\ op.name = "input"
  /\ op' = Op("until", is_interval_heap_until(St(sequence_, t), Len(sequence_)),
              t, <<is_interval_heap(St(sequence_, t), Len(sequence_))>>, FALSE)
  /\ UNCHANGED <<sequence_, pre, out>>
  /\ UNCHANGED <<compare_, other, blocks>>

\* pop_interval_heap_max on the input, with a comparator that throws on its
\* t-th call: op.v is t, op.ex whether the exception left the call.
alg_pop_interval_heap_max(t) ==
  /\ op.name = "input"
  /\ LET r == pop_interval_heap_max(St(sequence_, t), Len(sequence_))
     IN /\ sequence_' = r.a
        /\ op' = Op("pop_max", NoArg, t, << >>, r.ex)
  /\ UNCHANGED <<pre, out>>
  /\ UNCHANGED <<compare_, other, blocks>>

\* The slots around an empty range [first, first) with first k slots into
\* the buffer buf: offset j of the range is slot k + j of the buffer.
Around(buf, k) == [j \in (1 - k)..(Len(buf) - k) |-> buf[j + k]]

\* The buffer back from the slots around first.
Buffer(a, k, n) == [j \in 1..n |-> a[j - k]]

\* pop_interval_heap_min (first, first, compare) on the empty range that
\* starts k slots into the input, with at least one slot on either side of
\* first: op.i is k.
alg_pop_interval_heap_min_empty(k) ==
  /\ op.name = "input"
  /\ k \in 1..(Len(sequence_) - 1)
  /\ LET r == pop_interval_heap_min(St(Around(sequence_, k), 0), 0)
     IN /\ sequence_' = Buffer(r.a, k, Len(sequence_))
        /\ op' = Op("pop_min_empty", k, NoArg, << >>, r.ex)
  /\ UNCHANGED <<pre, out>>
  /\ UNCHANGED <<compare_, other, blocks>>

\* pop_interval_heap on an input that is a valid interval heap, at offset
\* index: op.i is index.
alg_pop_interval_heap(index) ==
  /\ op.name = "input"
  /\ IntervalHeap(sequence_, Len(sequence_))
  /\ index \in 0..(Len(sequence_) - 1)
  /\ LET r == pop_interval_heap(St(sequence_, 0), Len(sequence_), index)
     IN /\ sequence_' = r.a
        /\ op' = Op("pop_at", index, NoArg, << >>, r.ex)
  /\ UNCHANGED <<pre, out>>
  /\ UNCHANGED <<compare_, other, blocks>>

\* push_interval_heap on an input whose slots before the last one are a
\* valid interval heap.
alg_push_interval_heap ==
  /\ op.name = "input"
  /\ Len(sequence_) >= 1
  /\ IntervalHeap(sequence_, Len(sequence_) - 1)
  /\ LET r == push_interval_heap(St(sequence_, 0), Len(sequence_))
     IN /\ sequence_' = r.a
        /\ op' = Op("push_heap", NoArg, NoArg, << >>, r.ex)
  /\ UNCHANGED <<pre, out>>
  /\ UNCHANGED <<compare_, other, blocks>>

AlgNext ==
  \/ alg_make_interval_heap
  \/ alg_sort_interval_heap
  \/ drain_minimum
  \/ drain_maximum
  \/ alg_make_interval_heap_again

SpecAlg == AlgInit /\ [][AlgNext]_vars

\* SpecFn applies to the same inputs the algorithms that are settled by one
\* call, with a comparator that may throw.
FnNext ==
  \/ \E t \in 0..MaxThrow : alg_is_interval_heap_until(t)
  \/ \E t \in 0..1 : alg_pop_interval_heap_max(t)
  \/ \E k \in 1..MaxArr : alg_pop_interval_heap_min_empty(k)
  \/ \E index \in 0..MaxArr : alg_pop_interval_heap(index)
  \/ alg_push_interval_heap

SpecFn == AlgInit /\ [][FnNext]_vars

\* ------------------------------------- comparator and sequence exceptions
(***************************************************************************)
(* SpecExc and SpecBasic start from a deque constructed from a range of at *)
(* most MaxArr elements and make one call on it, with a comparator that    *)
(* throws on its t-th call (never when t is 0) or with a backing sequence  *)
(* whose push_back or pop_back throws.  pre is the array before the call,  *)
(* op.ex tells whether a comparator exception reached the caller.          *)
(* SpecExc makes the calls that roll back (push, emplace, pop_minimum,     *)
(* pop_maximum, erase, the move form of update), SpecBasic those that do   *)
(* not (merge, the range constructor, the copy form of update).  The range *)
(* constructor does not read the deque it replaces, so it is applied to    *)
(* the empty one only.                                                     *)
(***************************************************************************)
\* update (const_iterator, value_type&&): held is the caller's variable
\* after the first swap; on an exception the two are swapped again.
Restored(r, ind, held) ==
  [a |-> IF r.ex THEN Put(r.a, ind, held) ELSE r.a,
   v |-> IF r.ex THEN At(r.a, ind) ELSE held,
   ex |-> r.ex]

\* Mutant of do_update_move: the catch block does not swap the value back.
do_update_move_no_restore(a, ind, value, t) ==
  [a |-> update_interval_heap(St(Put(a, ind, value), t), Len(a), ind).a,
   v |-> At(a, ind),
   ex |-> update_interval_heap(St(Put(a, ind, value), t), Len(a), ind).ex]

\* The array left, the caller's variable after the call, whether it threw.
do_update_move(a, ind, value, t) ==
  Restored(update_interval_heap(St(Put(a, ind, value), t), Len(a), ind),
           ind, At(a, ind))

\* op.v is the value passed, op.rng holds the caller's variable afterwards.
update_move(ind, value, t) ==
  /\ op.name = "idle"
  /\ 0 <= ind /\ ind < Len(sequence_)
  /\ LET r == do_update_move(sequence_, ind, value, t)
     IN /\ sequence_' = r.a
        /\ op' = Op("update_move", ind, value, <<r.v>>, r.ex)
  /\ pre' = sequence_
  /\ out' = out
  /\ UNCHANGED <<compare_, other, blocks>>

\* sequence_.push_back throws in push: the sequence keeps its contents and
\* nothing else is executed.
push_push_back_throws(value) ==
  /\ op.name = "idle"
  /\ Len(sequence_) < MaxLen
  /\ sequence_' = sequence_
  /\ op' = Op("push_push_back_throws", NoArg, value, << >>, FALSE)
  /\ pre' = sequence_
  /\ out' = out
  /\ UNCHANGED <<compare_, other, blocks>>

\* Mutant of restore_heap: the catch block re-throws without the push.
restore_heap_skipped(r, index_end) == r

\* catch (...) { heap::push_interval_heap(begin, end, compare_); throw; }
\* after the pop r: sequence_.pop_back threw and removed nothing.
restore_heap(r, index_end) == push_interval_heap(r, index_end)

\* sequence_.pop_back throws in pop_minimum (reached when the comparator
\* did not throw before); op.ex: the comparator threw in the catch block.
pop_minimum_pop_back_throws(t) ==
  /\ op.name = "idle"
  /\ ~empty
  /\ LET r == pop_interval_heap_min(St(sequence_, t), size)
     IN /\ ~r.ex
        /\ sequence_' = restore_heap(r, size).a
        /\ op' = Op("pop_minimum_pop_back_throws", NoArg, NoArg, << >>,
                    restore_heap(r, size).ex)
  /\ pre' = sequence_
  /\ out' = out
  /\ UNCHANGED <<compare_, other, blocks>>

pop_maximum_pop_back_throws(t) ==
  /\ op.name = "idle"
  /\ ~empty
  /\ LET r == pop_interval_heap_max(St(sequence_, t), size)
     IN /\ ~r.ex
        /\ sequence_' = restore_heap(r, size).a
        /\ op' = Op("pop_maximum_pop_back_throws", NoArg, NoArg, << >>,
                    restore_heap(r, size).ex)
  /\ pre' = sequence_
  /\ out' = out
  /\ UNCHANGED <<compare_, other, blocks>>

erase_pop_back_throws(index, t) ==
  /\ op.name = "idle"
  /\ 0 <= index /\ index < Len(sequence_)
  /\ LET r == pop_interval_heap(St(sequence_, t), size, index)
     IN /\ ~r.ex
        /\ sequence_' = restore_heap(r, size).a
        /\ op' = Op("erase_pop_back_throws", index, NoArg, << >>,
                    restore_heap(r, size).ex)
  /\ pre' = sequence_
  /\ out' = out
  /\ UNCHANGED <<compare_, other, blocks>>

\* The deque after priority_deque (first, last) on a range of at most MaxArr
\* elements, with a comparator that does not throw.
ExcInit ==
  /\ sequence_ \in {make_interval_heap(St(rng, 0), Len(rng)).a :
                      rng \in ArraysUpTo(MaxArr)}
  /\ pre = << >>
  /\ op = Idle
  /\ out = << >>
  /\ compare_ = "less"
  /\ other = NoOther
  /\ blocks = NoBlocks

ExcNext ==
  \/ \E v \in Values, t \in 0..MaxThrow : push(v, t)
  \/ \E v \in Values, t \in 0..MaxThrow : emplace(v, t)
  \/ \E t \in 0..MaxThrow : pop_minimum(t)
  \/ \E t \in 0..MaxThrow : pop_maximum(t)
  \/ \E i \in 0..(MaxLen - 1), v \in Values, t \in 0..MaxThrow :
       update_move(i, v, t)
  \/ \E i \in 0..(MaxLen - 1), t \in 0..MaxThrow : erase(i, t)
  \/ \E v \in Values : push_push_back_throws(v)
  \/ \E t \in 0..MaxThrow : pop_minimum_pop_back_throws(t)
  \/ \E t \in 0..MaxThrow : pop_maximum_pop_back_throws(t)
  \/ \E i \in 0..(MaxLen - 1), t \in 0..MaxThrow : erase_pop_back_throws(i, t)

SpecExc == ExcInit /\ [][ExcNext]_vars

\* The range constructor does not read the deque it replaces: it is applied
\* to the empty deque only.
priority_deque_range_first(rng, t) ==
  /\ empty
  /\ priority_deque_range(rng, t)

BasicNext ==
  \/ \E rng \in ArraysUpTo(MaxMerge), t \in 0..MaxThrow : merge(rng, t)
  \/ \E rng \in ArraysUpTo(MaxMerge), t \in 0..MaxThrow :
       priority_deque_range_first(rng, t)
  \/ \E i \in 0..(MaxLen - 1), v \in Values, t \in 0..MaxThrow :
       update(i, v, t)

SpecBasic == ExcInit /\ [][BasicNext]_vars

\* -------------------------------- the adaptor of priority_deque.hpp
(***************************************************************************)
(* priority_deque.hpp holds a self-contained adaptor that does not use     *)
(* interval_heap.hpp: its interval heap keeps the max bound of an interval *)
(* at the even index (the left heap) and the min bound at the odd index,   *)
(* and it repairs the heap with replace, replace_leaf and replace_bubble,  *)
(* which put a replacement element into the slot at index.  It has no      *)
(* exception handling; its operators work on the plain array.              *)
(*                                                                         *)
(* replacement_element is a reference.  pop_maximum, pop_minimum and erase *)
(* bind it to the last slot of the sequence, which lies just past the      *)
(* range they repair; set, make_back_valid and make_valid bind it to a     *)
(* local variable.  The operators take the offset of the referenced slot:  *)
(* a local variable is a slot appended to the array (Local) and dropped    *)
(* when the call returns.  Names that priority_deque.inl also uses carry   *)
(* the prefix hpp_.                                                        *)
(***************************************************************************)
\* compare<left_heap> (a, b)
compare(left_heap, x, y) == IF left_heap THEN less(x, y) ELSE less(y, x)

\* The array with the local variable swapspace behind it, holding v.
Local(a, v) == Append(a, v)

\* ((index / 2 - 1) | 1) ^ 1 ^ (index & 1)
replace_bubble_parent(index) ==
  IF index % 2 = 0 THEN Xor1(Or1(CDiv(index, 2) - 1))
                   ELSE Or1(CDiv(index, 2) - 1)

\* Mutant of replace_bubble: the replacement is placed without being sent up.
replace_bubble_in_place(left_heap, a, index, replacement_element, limit_child) ==
  Move(a, index, replacement_element)

RECURSIVE replace_bubble(_, _, _, _, _)
replace_bubble(left_heap, a, index, replacement_element, limit_child) ==
  IF /\ index >= limit_child
     /\ compare(left_heap, At(a, replace_bubble_parent(index)),
                At(a, replacement_element))
    THEN replace_bubble(left_heap,
                        Move(a, index, replace_bubble_parent(index)),
                        replace_bubble_parent(index), replacement_element,
                        limit_child)
    ELSE Move(a, index, replacement_element)

\* Index of the corresponding element in replace_leaf.
replace_leaf_co_index(left_heap, index_end, index, limit_child) ==
  IF left_heap
    THEN IF Xor1(index) >= index_end
           THEN IF Xor1(index) < limit_child THEN index
                ELSE Or1(CDiv(index, 2) - 1)
           ELSE Xor1(index)
    ELSE IF Xor1(index) * 2 + 2 < index_end THEN Xor1(index) * 2 + 2
         ELSE Xor1(index)

\* replace_leaf with its co_index computed.
replace_leaf_at(left_heap, a, index, co_index, replacement_element, limit_child) ==
  IF compare(left_heap, At(a, replacement_element), At(a, co_index))
    THEN replace_bubble(~left_heap, Move(a, index, co_index), co_index,
                        replacement_element, limit_child)
    ELSE replace_bubble(left_heap, a, index, replacement_element, limit_child)

replace_leaf(left_heap, a, index_end, index, replacement_element, limit_child) ==
  replace_leaf_at(left_heap, a, index,
                  replace_leaf_co_index(left_heap, index_end, index, limit_child),
                  replacement_element, limit_child)

\* One past the last element with two children.
replace_end_parent(left_heap, index_end) ==
  CDiv(index_end, 2) - (IF left_heap /\ index_end % 4 = 0 THEN 2 ELSE 1)

\* The child the while loop of replace descends to.
replace_pick(left_heap, a, child) ==
  IF compare(left_heap, At(a, child), At(a, child + 2)) THEN child + 2
                                                        ELSE child

\* The while loop of replace: the array and the index it stops at.
RECURSIVE replace_loop(_, _, _, _)
replace_loop(left_heap, a, index, end_parent) ==
  IF index < end_parent
    THEN replace_loop(left_heap,
                      Move(a, index,
                           replace_pick(left_heap, a, Child(index, left_heap))),
                      replace_pick(left_heap, a, Child(index, left_heap)),
                      end_parent)
    ELSE [a |-> a, index |-> index]

\* The special case when index has exactly one child, and the leaf step,
\* after the while loop d.
replace_after_loop(left_heap, d, index_end, end_parent, replacement_element, limit_child) ==
  IF d.index < end_parent + 2 /\ Child(d.index, left_heap) < index_end
    THEN replace_leaf(left_heap,
                      Move(d.a, d.index, Child(d.index, left_heap)),
                      index_end, Child(d.index, left_heap),
                      replacement_element, limit_child)
    ELSE replace_leaf(left_heap, d.a, index_end, d.index,
                      replacement_element, limit_child)

replace(left_heap, a, index_end, index, replacement_element, limit_child) ==
  replace_after_loop(left_heap,
                     replace_loop(left_heap, a, index,
                                  replace_end_parent(left_heap, index_end)),
                     index_end, replace_end_parent(left_heap, index_end),
                     replacement_element, limit_child)

make_back_valid(a) ==
  pop_back(replace_leaf(Len(a) % 2 = 1,
                        Local(Put(a, Len(a) - 1, Hole), back(a)),
                        Len(a), Len(a) - 1, Len(a), 2))

\* The swap at the head of the do-while body of make_valid.
make_valid_order(a, index) ==
  IF compare(TRUE, At(a, index), At(a, index + 1))
    THEN Swap(a, index, index + 1) ELSE a

\* replace<true> of the body of make_valid, with swap_max, on the array b
\* that replace<false> left.
make_valid_max(b, index, stop) ==
  pop_back(replace(TRUE, Local(Put(b, index, Hole), At(b, index)),
                   Len(b), index, Len(b), stop))

\* replace<false>, with swap_min, and replace<true> of the body of
\* make_valid, on the array o with the interval at index ordered.
make_valid_replace(o, index, stop) ==
  make_valid_max(pop_back(replace(FALSE,
                                  Local(Put(o, index + 1, Hole),
                                        At(o, index + 1)),
                                  Len(o), index + 1, Len(o), stop + 1)),
                 index, stop)

\* The do-while loop of make_valid, entered with index already lowered by 2.
RECURSIVE make_valid_loop(_, _, _)
make_valid_loop(a, index, end_parent) ==
  IF index > 0
    THEN make_valid_loop(
           make_valid_replace(make_valid_order(a, index), index,
                              IF index <= end_parent THEN index * 2 + 2
                                                     ELSE Len(a)),
           index - 2, end_parent)
    ELSE make_valid_replace(make_valid_order(a, index), index,
                            IF index <= end_parent THEN index * 2 + 2
                                                   ELSE Len(a))

make_valid(a) ==
  IF Len(a) <= 1 THEN a
  ELSE make_valid_loop(a, Len(a) - (Len(a) % 2) - 2, CDiv(Len(a), 2) - 1)

\* is_valid_until finds corruption at offset n.
is_valid_until_check(a, n) ==
  \/ /\ n > 1
     /\ IF n % 2 = 1
          THEN less(At(a, n), At(a, replace_bubble_parent(n)))
          ELSE \/ less(At(a, replace_bubble_parent(n)), At(a, n))
               \/ less(At(a, n), At(a, Or1(replace_bubble_parent(n))))
  \/ /\ n % 2 = 1
     /\ less(At(a, Xor1(n)), At(a, n))

RECURSIVE is_valid_until_loop(_, _)
is_valid_until_loop(a, n) ==
  IF n < Len(a) /\ ~is_valid_until_check(a, n)
    THEN is_valid_until_loop(a, n + 1) ELSE n

\* The offset is_valid_until returns: Len(a) stands for pd.end().
is_valid_until(a) == is_valid_until_loop(a, 0)

hpp_maximum == At(sequence_, 0)

hpp_minimum ==
  IF Len(sequence_) = 1 THEN At(sequence_, 0) ELSE At(sequence_, 1)

hpp_push(value) ==
  /\ op.name = "idle"
  /\ Len(sequence_) < MaxLen
  /\ sequence_' = make_back_valid(Append(sequence_, value))
  /\ op' = Op("push", NoArg, value, << >>, FALSE)
  /\ pre' = sequence_
  /\ UNCHANGED <<compare_, other, out, blocks>>

hpp_pop_maximum ==
  /\ op.name = "idle"
  /\ ~empty
  /\ sequence_' = pop_back(replace(TRUE, sequence_, Len(sequence_) - 1, 0,
                                   Len(sequence_) - 1, 2))
  /\ op' = Op("pop_maximum", NoArg, hpp_maximum, << >>, FALSE)
  /\ pre' = sequence_
  /\ UNCHANGED <<compare_, other, out, blocks>>

hpp_pop_minimum ==
  /\ op.name = "idle"
  /\ ~empty
  /\ sequence_' = pop_back(IF Len(sequence_) - 1 > 1
                             THEN replace(FALSE, sequence_, Len(sequence_) - 1,
                                          1, Len(sequence_) - 1, 2)
                             ELSE sequence_)
  /\ op' = Op("pop_minimum", NoArg, hpp_minimum, << >>, FALSE)
  /\ pre' = sequence_
  /\ UNCHANGED <<compare_, other, out, blocks>>

\* set (const_iterator, const Type&) and set (const_iterator, Type&&)
set(index, replacement) ==
  /\ op.name = "idle"
  /\ 0 <= index /\ index < Len(sequence_)
  /\ sequence_' = pop_back(replace(index % 2 = 0,
                                   Local(sequence_, replacement),
                                   Len(sequence_), index, Len(sequence_), 2))
  /\ op' = Op("set", index, replacement, << >>, FALSE)
  /\ pre' = sequence_
  /\ UNCHANGED <<compare_, other, out, blocks>>

hpp_erase(index) ==
  /\ op.name = "idle"
  /\ 0 <= index /\ index < Len(sequence_)
  /\ sequence_' = pop_back(replace(index % 2 = 0, sequence_,
                                   Len(sequence_) - 1, index,
                                   Len(sequence_) - 1, 2))
  /\ op' = Op("erase", index, At(sequence_, index), << >>, FALSE)
  /\ pre' = sequence_
  /\ UNCHANGED <<compare_, other, out, blocks>>

hpp_merge(rng) ==
  /\ op.name = "idle"
  /\ Len(sequence_) + Len(rng) <= MaxLen
  /\ sequence_' = make_valid(sequence_ \o rng)
  /\ op' = Op("merge", NoArg, NoArg, rng, FALSE)
  /\ pre' = sequence_
  /\ UNCHANGED <<compare_, other, out, blocks>>

HppNext ==
  \/ \E v \in Values : hpp_push(v)
  \/ hpp_pop_maximum
  \/ hpp_pop_minimum
  \/ \E i \in 0..(MaxLen - 1), v \in Values : set(i, v)
  \/ \E i \in 0..(MaxLen - 1) : hpp_erase(i)
  \/ \E rng \in ArraysUpTo(MaxMerge) : hpp_merge(rng)
  \/ ret

SpecHpp == Init /\ [][HppNext]_vars

\* The calls of the push / pop / erase loop of main.cpp.
HppPushNext ==
  \/ \E v \in Values : hpp_push(v)
  \/ hpp_pop_maximum
  \/ hpp_pop_minimum
  \/ \E i \in 0..(MaxLen - 1) : hpp_erase(i)
  \/ ret

SpecHppPush == Init /\ [][HppPushNext]_vars

\* --------------------------------------------------------------------- swap
(***************************************************************************)
(* swap takes a second deque of the same type.  Compare may carry state (a *)
(* function pointer, say), so two deques of one type can order differently:*)
(* the comparators here are "less" and "greater".  std::greater on the     *)
(* elements is std::less on their mirror images within Values, which is    *)
(* how a deque that orders by "greater" is constructed.  pre keeps both    *)
(* deques as they were before the first swap, op.i counts the swaps.       *)
(***************************************************************************)
Comparators == {"less", "greater"}

\* The elements of a reflected within Values: greater(x, y) is
\* less(MaxVal + 1 - x, MaxVal + 1 - y).
Mirror(a) == [k \in DOMAIN a |-> MaxVal + 1 - a[k]]

\* The deque constructed from the range rng with the comparator cmp, by
\* priority_deque.hpp (hpp) or by priority_deque.inl.
Constructed(hpp, rng, cmp) ==
  [sequence_ |->
     IF hpp
       THEN IF cmp = "less" THEN make_valid(rng)
                            ELSE Mirror(make_valid(Mirror(rng)))
       ELSE IF cmp = "less"
              THEN make_interval_heap(St(rng, 0), Len(rng)).a
              ELSE Mirror(make_interval_heap(St(Mirror(rng), 0), Len(rng)).a),
   compare_ |-> cmp]

\* Two deques constructed from ranges of at most MaxMerge elements.
SwapInitFrom(hpp) ==
  /\ \E rng \in ArraysUpTo(MaxMerge), cmp \in Comparators :
       /\ sequence_ = Constructed(hpp, rng, cmp).sequence_
       /\ compare_ = cmp
  /\ other \in {Constructed(hpp, rng, cmp) :
                  rng \in ArraysUpTo(MaxMerge), cmp \in Comparators}
  /\ pre = << >>
  /\ op = Idle
  /\ out = << >>
  /\ blocks = NoBlocks

\* swap (priority_deque&) of priority_deque.inl, called at most twice.
swap ==
  /\ op.name = "idle" \/ (op.name = "swap" /\ op.i < 2)
  /\ compare_' = other.compare_
  /\ sequence_' = other.sequence_
  /\ other' = [sequence_ |-> sequence_, compare_ |-> compare_]
  /\ op' = Op("swap", IF op.name = "idle" THEN 1 ELSE op.i + 1, NoArg, << >>,
              FALSE)
  /\ pre' = IF op.name = "idle"
              THEN <<[sequence_ |-> sequence_, compare_ |-> compare_], other>>
              ELSE pre
  /\ out' = out
  /\ UNCHANGED blocks

SpecSwap == SwapInitFrom(FALSE) /\ [][swap]_vars

\* swap (priority_deque&) of priority_deque.hpp, called at most twice.
hpp_swap ==
  /\ op.name = "idle" \/ (op.name = "swap" /\ op.i < 2)
  /\ sequence_' = other.sequence_
  /\ other' = [sequence_ |-> sequence_, compare_ |-> other.compare_]
  /\ op' = Op("swap", IF op.name = "idle" THEN 1 ELSE op.i + 1, NoArg, << >>,
              FALSE)
  /\ pre' = IF op.name = "idle"
              THEN <<[sequence_ |-> sequence_, compare_ |-> compare_], other>>
              ELSE pre
  /\ UNCHANGED <<compare_, out, blocks>>

SpecHppSwap == SwapInitFrom(TRUE) /\ [][hpp_swap]_vars

\* ------------------------------------------- the sifts, one call at a time
(***************************************************************************)
(* SpecPrim applies one internal routine of interval_heap.hpp to an input  *)
(* array that need not be a heap: every array of at most MaxPrim elements  *)
(* and every array of MaxDeep elements over the two extreme values (long   *)
(* enough for a descent of two steps that ends on a singleton).  The       *)
(* comparator throws on its t-th call, for every t up to the number of     *)
(* calls the routine makes (t = 0: it never throws); op.rng is             *)
(* <<limit_child, t>>.                                                     *)
(***************************************************************************)
MaxPrim == 5
MaxDeep == 9

PrimInit ==
  /\ sequence_ \in ArraysUpTo(MaxPrim) \cup [1..MaxDeep -> {1, MaxVal}]
  /\ pre = sequence_
  /\ op = Op("input", NoArg, NoArg, << >>, FALSE)
  /\ out = << >>
  /\ compare_ = "less"
  /\ other = NoOther
  /\ blocks = NoBlocks

\* sift_up<left_bound> (first, origin, compare, limit_child): op.i is origin,
\* op.v the index the loop stopped at, out holds the side.
alg_sift_up(left_bound, origin, limit_child, t) ==
  /\ op.name = "input"
  /\ origin \in 0..(Len(sequence_) - 1)
  /\ t > 0 => sift_up(left_bound, St(sequence_, t), origin, limit_child).ex
  /\ sequence_' = sift_up(left_bound, St(sequence_, t), origin, limit_child).a
  /\ op' = Op("sift_up", origin,
              sift_up_loop(left_bound, St(Put(sequence_, origin, Hole), t),
                           origin, At(sequence_, origin), limit_child).index,
              <<limit_child, t>>,
              sift_up(left_bound, St(sequence_, t), origin, limit_child).ex)
  /\ out' = <<left_bound>>
  /\ UNCHANGED pre
  /\ UNCHANGED <<compare_, other, blocks>>

\* sift_down<left_bound> (first, last, origin, compare, limit_child) with the
\* side of origin's parity, as every caller has it: op.i is origin.
alg_sift_down(origin, limit_child, t) ==
  /\ op.name = "input"
  /\ origin \in 0..(Len(sequence_) - 1)
  /\ LET r == sift_down(origin % 2 = 0, St(sequence_, t), Len(sequence_),
                        origin, limit_child)
     IN /\ t > 0 => r.ex
        /\ sequence_' = r.a
        /\ op' = Op("sift_down", origin, NoArg, <<limit_child, t>>, r.ex)
  /\ UNCHANGED <<pre, out>>
  /\ UNCHANGED <<compare_, other, blocks>>

\* One iteration of the do-while loop of make_full, for the interval
\* (index, index + 1) of an inner node: op.i is index.
alg_make_full_iteration(index) ==
  /\ op.name = "input"
  /\ Len(sequence_) >= 2
  /\ index % 2 = 0
  /\ index \in 0..(CDiv(Len(sequence_), 2) - 1)
  /\ LET r == then_sift_down(TRUE,
                then_sift_down(FALSE,
                  order_interval(St(sequence_, 0), index, index + 1),
                  Len(sequence_), index + 1, (index + 1) * 2),
                Len(sequence_), index, (index + 1) * 2)
     IN /\ sequence_' = r.a
        /\ op' = Op("make_full_iteration", index, NoArg, << >>, r.ex)
  /\ UNCHANGED <<pre, out>>
  /\ UNCHANGED <<compare_, other, blocks>>

\* make_interval_heap (first, last, compare) with a comparator that throws
\* on its t-th call.
alg_make_interval_heap_throwing(t) ==
  /\ op.name = "input"
  /\ LET r == make_interval_heap(St(sequence_, t), Len(sequence_))
     IN /\ r.ex
        /\ sequence_' = r.a
        /\ op' = Op("make_throwing", NoArg, NoArg, <<2, t>>, r.ex)
  /\ UNCHANGED <<pre, out>>
  /\ UNCHANGED <<compare_, other, blocks>>

PrimNext ==
  \/ \E left_bound \in BOOLEAN, origin \in 0..(MaxDeep - 1),
        limit_child \in {2, 6}, t \in 0..MaxThrow :
       alg_sift_up(left_bound, origin, limit_child, t)
  \/ \E origin \in 0..(MaxDeep - 1), t \in 0..MaxThrow :
       alg_sift_down(origin, 2, t) \/ alg_sift_down(origin, Or1(origin) * 2, t)
  \/ \E index \in 0..(MaxDeep - 1) : alg_make_full_iteration(index)
  \/ \E t \in 1..MaxThrow : alg_make_interval_heap_throwing(t)

SpecPrim == PrimInit /\ [][PrimNext]_vars

\* ------------------------------------- the slots around the range [0, n)
(***************************************************************************)
(* SpecGuard gives a routine the range [first, last) inside a buffer that  *)
(* has two more slots on either side.  Each of the four outer slots holds  *)
(* a value below or above every element, and the routine is run once for   *)
(* each of the 16 ways to fill them: a comparison that reads an outer slot *)
(* has a different outcome in two of the runs, and a move or swap that     *)
(* involves one changes it.  out[1] maps each filling to the buffer the    *)
(* run left, sequence_ is the range after the run with every outer slot    *)
(* at Hole.                                                                *)
(***************************************************************************)
GuardSlots == [1..4 -> {Hole, MaxVal + 1}]

\* The buffer <<g[1], g[2]>> \o a \o <<g[3], g[4]>> seen from first.
Guarded(a, g) == Around(<<g[1], g[2]>> \o a \o <<g[3], g[4]>>, 2)

\* The call of the routine named routine at index, with limit_child = 2:
\* sift_up and sift_down on the side of the index's parity, sift_leaf
\* (sift_leaf_max at an odd index, sift_leaf_min at an even one), make_full.
GuardedCall(routine, st, index_end, index) ==
  CASE routine = "sift_up" -> sift_up(index % 2 = 0, st, index, 2)
    [] routine = "sift_leaf" -> sift_leaf(st, index_end, index)
    [] routine = "sift_down" -> sift_down(index % 2 = 0, st, index_end, index, 2)
    [] routine = "make_full" -> make_full(st, index_end)

\* The buffers that the runs of the call on the range a leave.
GuardedRuns(routine, a, index) ==
  [g \in GuardSlots |->
     Buffer(GuardedCall(routine, St(Guarded(a, g), 0), Len(a), index).a, 2,
            Len(a) + 4)]

\* The range of the buffer buf.
Range(buf) == SubSeq(buf, 3, Len(buf) - 2)

\* One routine called at index: op.i is index, op.rng holds the routine.
\* The index_end of make_full is "not less than 2" (make_interval_heap
\* returns before the call on a shorter range).
guarded(routine, index) ==
  /\ op.name = "input"
  /\ index \in 0..(Len(sequence_) - 1)
  /\ routine = "make_full" => (index = 0 /\ Len(sequence_) >= 2)
  /\ LET runs == GuardedRuns(routine, sequence_, index)
     IN /\ out' = <<runs>>
        /\ sequence_' = Range(runs[[k \in 1..4 |-> Hole]])
  /\ op' = Op("guarded", index, NoArg, <<routine>>, FALSE)
  /\ UNCHANGED pre
  /\ UNCHANGED <<compare_, other, blocks>>

GuardNext ==
  \E routine \in {"sift_up", "sift_leaf", "sift_down", "make_full"},
     index \in 0..(MaxDeep - 1) : guarded(routine, index)

SpecGuard == PrimInit /\ [][GuardNext]_vars

\* ------------------------------------------------- the threaded bulk-load
(***************************************************************************)
(* make_block (first, last, compare, block_begin, block_end, threads)      *)
(* makes the layer [block_begin, block_end) of the heap after the layers   *)
(* below it, and may pass half of these to a std::thread.  blocks maps     *)
(* every call of the recursion to the value of its loop variable index     *)
(* before the decrement (the next interval it makes is (index - 2,         *)
(* index - 1)); a call that has not reached its loop yet is at its first   *)
(* index.  One step is one iteration of one call's loop.  A call can step  *)
(* when the calls it makes have returned and its thread is joined; calls   *)
(* that can step at the same time are running on different threads.        *)
(***************************************************************************)
kBranchMin == 0
kThreadMin == 32
MaxThreads == 4

Block(block_begin, block_end, threads) ==
  [block_begin |-> block_begin, block_end |-> block_end, threads |-> threads]

\* if (block_begin < end_parent)
make_block_recurses(b, index_end) == b.block_begin < CDiv(index_end, 2) - 1

\* if ((threads > 1) && (block_end - block_begin >= kBranchMin))
make_block_branches(b, index_end) ==
  /\ make_block_recurses(b, index_end)
  /\ b.threads > 1
  /\ b.block_end - b.block_begin >= kBranchMin

\* The call that thread_branch runs, if the call b branches.
thread_branch(b, index_end) ==
  IF make_block_branches(b, index_end)
    THEN {Block(b.block_end + b.block_begin + 2, (b.block_end + 1) * 2,
                b.threads \div 2)}
    ELSE {}

\* The call of make_block that the call b makes itself, if it recurses.
make_block_calls(b, index_end) ==
  IF make_block_branches(b, index_end)
    THEN {Block((b.block_begin + 1) * 2, b.block_end + b.block_begin + 2,
                b.threads - b.threads \div 2)}
  ELSE IF make_block_recurses(b, index_end)
    THEN {Block((b.block_begin + 1) * 2, (b.block_end + 1) * 2, b.threads)}
  ELSE {}

\* The call b and all the calls under it.
RECURSIVE make_block_tree(_, _)
make_block_tree(b, index_end) ==
  {b} \cup UNION {make_block_tree(c, index_end) :
                    c \in thread_branch(b, index_end)
                            \cup make_block_calls(b, index_end)}

\* The first value of index (before the decrement): block_end, cut down to
\* the last full interval in a call that does not recurse.
make_block_first(b, index_end) ==
  IF ~make_block_recurses(b, index_end) /\ b.block_end > index_end
    THEN index_end - (index_end % 2)
    ELSE b.block_end

\* Mutant of make_block_stop: the sifts may climb up to the root interval.
make_block_stop_at_root(b, index_end, coindex) == 2

\* const Offset stop
make_block_stop(b, index_end, coindex) ==
  IF make_block_recurses(b, index_end) \/ b.block_begin <= CDiv(index_end, 2) - 1
    THEN coindex * 2
    ELSE index_end

\* Mutant of make_block_iteration: the interval is put in order and nothing
\* is sifted down.
make_block_iteration_order_only(st, index_end, b, index0) ==
  order_interval(st, index0 - 2, index0 - 1)

\* One iteration of the loop of the call b, on the interval
\* (index0 - 2, index0 - 1).  A call that does not recurse sifts in its
\* first interval only.
make_block_iteration(st, index_end, b, index0) ==
  IF make_block_recurses(b, index_end) \/ index0 - 2 = b.block_begin
    THEN then_sift_down(TRUE,
           then_sift_down(FALSE,
             order_interval(st, index0 - 2, index0 - 1),
             index_end, index0 - 1,
             make_block_stop(b, index_end, index0 - 1)),
           index_end, index0 - 2, make_block_stop(b, index_end, index0 - 1))
    ELSE order_interval(st, index0 - 2, index0 - 1)

\* The call b has left its loop.
Returned(b) == blocks[b] <= b.block_begin

\* The call b runs under a call that has branched and not joined yet: an
\* exception that leaves b reaches the top of a thread function or destroys
\* a joinable std::thread, and either calls std::terminate.
UnderBranch(b, index_end) ==
  \E a \in DOMAIN blocks :
    /\ make_block_branches(a, index_end)
    /\ a # b
    /\ b \in make_block_tree(a, index_end)

\* The elements of a range long enough for make_interval_heap to consider
\* threads, in descending order modulo MaxVal.
ThreadedInput == [k \in 1..(kThreadMin + 1) |-> ((kThreadMin + 1 - k) % MaxVal) + 1]

\* make_block (first, last, compare, 0, 2, threads) is called on one of the
\* ranges in inputs: op.i is threads.  make_interval_heap makes this call
\* on a range of more than kThreadMin elements when
\* std::thread::hardware_concurrency () is more than 1.
BlockInit(inputs) ==
  /\ sequence_ \in inputs
  /\ pre = sequence_
  /\ \E threads \in 1..MaxThreads :
       /\ Len(sequence_) > kThreadMin => threads > 1
       /\ op = Op("make_block", threads, NoArg, << >>, FALSE)
       /\ blocks = [b \in make_block_tree(Block(0, 2, threads), Len(sequence_))
                      |-> make_block_first(b, Len(sequence_))]
  /\ out = << >>
  /\ compare_ = "less"
  /\ other = NoOther

\* One iteration of the loop of the call b, with a comparator that throws
\* on its t-th call from now.  An exception leaves the whole call or ends
\* the program ("terminate").
make_block(b, t) ==
  /\ op.name = "make_block" /\ ~op.ex
  /\ b \in DOMAIN blocks
  /\ \A c \in thread_branch(b, Len(sequence_)) \cup make_block_calls(b, Len(sequence_)) :
       Returned(c)
  /\ ~Returned(b)
  /\ LET r == make_block_iteration(St(sequence_, t), Len(sequence_), b, blocks[b])
     IN /\ t > 0 => r.ex
        /\ sequence_' = r.a
        /\ blocks' = IF r.ex THEN blocks ELSE [blocks EXCEPT ![b] = @ - 2]
        /\ op' = IF ~r.ex THEN op
                 ELSE IF UnderBranch(b, Len(sequence_))
                   THEN Op("terminate", op.i, NoArg, << >>, TRUE)
                   ELSE Op("make_block", op.i, NoArg, << >>, TRUE)
  /\ UNCHANGED <<pre, out>>
  /\ UNCHANGED <<compare_, other>>

\* make_block called directly on every array of 2 to MaxPrim elements and
\* every two-valued array of 2 to MaxDeep elements, with a comparator that
\* does not throw.
SpecBlock ==
  BlockInit({a \in ArraysUpTo(MaxPrim) \cup UNION {[1..k -> {1, MaxVal}] : k \in 2..MaxDeep} : Len(a) >= 2}) /\ [][\E b \in DOMAIN blocks : make_block(b, 0)]_vars

\* make_interval_heap on ThreadedInput (in both directions) and on equal
\* elements, with a comparator that may throw.
SpecThreaded ==
  BlockInit({ThreadedInput, Mirror(ThreadedInput), [k \in 1..(kThreadMin + 1) |-> 1]}) /\ [][\E b \in DOMAIN blocks, t \in 0..MaxThrow : make_block(b, t)]_vars

\* ------------------------------------------------------------------ claims
\* C1: starting from an empty deque, after any sequence of calls that return
\* normally the stored array satisfies interval order, min nesting and max
\* nesting, and is_interval_heap is true of it.
C1_HeapValidity ==
  /\ IntervalOrder(sequence_, size)
  /\ MinNesting(sequence_, size)
  /\ MaxNesting(sequence_, size)
  /\ is_interval_heap(St(sequence_, 0), size)

C1_Witness ==
  /\ op.name = "update"
  /\ size = MaxLen
  /\ sequence_ # Put(pre, op.i, op.v)
  /\ \A v \in Values : Count(sequence_, v) > 0

\* C2: whenever the deque holds at least one element, minimum() is a least
\* element of the stored elements and maximum() is a greatest one.
C2_ExtremumExposure ==
  ~empty => /\ IsLeast(minimum, sequence_)
            /\ IsGreatest(maximum, sequence_)

C2_Witness ==
  /\ op.name = "pop_maximum"
  /\ size >= 5
  /\ less(minimum, maximum)
  /\ less(maximum, op.v)

\* C3: a push or emplace that returns normally adds exactly one v to the
\* stored multiset and grows the size by one.
C3_PushMembership ==
  (op.name \in {"push", "emplace"} /\ ~op.ex) =>
    /\ SameElements(sequence_, Append(pre, op.v))
    /\ size = Len(pre) + 1

C3_Witness ==
  /\ op.name = "push"
  /\ ~op.ex
  /\ size = MaxLen
  /\ sequence_ # Append(pre, op.v)

\* C4: pop_minimum removes exactly one occurrence of a least element and
\* nothing else, so the values read by minimum() before each pop_minimum
\* come out in non-decreasing order; from the heap of S1 they are
\* 1,1,2,3,3,4,5,5,5,6,9.
C4_PopMinimum ==
  op.name = "drain_minimum" =>
    /\ out[Len(out)] = op.v
    /\ IsLeast(op.v, sequence_)
    /\ SameElements(sequence_ \o out, pre)
    /\ \A k \in 1..(Len(out) - 1) : ~less(out[k + 1], out[k])
    /\ (pre = S1Input /\ empty) => out = <<1, 1, 2, 3, 3, 4, 5, 5, 5, 6, 9>>

C4_Witness ==
  /\ op.name = "drain_minimum"
  /\ pre = S1Input
  /\ empty

\* C5: pop_maximum removes exactly one occurrence of a greatest element and
\* nothing else at every size, the sizes 1 and 2 included, so the values read
\* by maximum() before each pop_maximum come out in non-increasing order.
C5_PopMaximum ==
  op.name = "drain_maximum" =>
    /\ out[Len(out)] = op.v
    /\ IsGreatest(op.v, sequence_)
    /\ SameElements(sequence_ \o out, pre)
    /\ \A k \in 1..(Len(out) - 1) : ~less(out[k], out[k + 1])
    /\ (pre = S1Input /\ empty) => out = <<9, 6, 5, 5, 5, 4, 3, 3, 2, 1, 1>>

C5_Witness ==
  /\ op.name = "drain_maximum"
  /\ Len(pre) = MaxArr
  /\ empty
  /\ less(out[Len(out)], out[1])

\* C6: update(i, v) at any valid position with any value returns with a valid
\* interval heap holding the old elements with the one at i replaced by v;
\* in the heap over 10,20,30,40,50 replacing 50 by 5 gives minimum 5 and
\* maximum 40.
S5Heap == make_interval_heap(St(<<10, 20, 30, 40, 50>>, 0), 5).a

S5Updated ==
  LET i == CHOOSE k \in 0..4 : At(S5Heap, k) = 50
  IN update_interval_heap(St(Put(S5Heap, i, 5), 0), 5, i).a

C6_Update ==
  /\ (op.name = "update" /\ ~op.ex) =>
       /\ IntervalHeap(sequence_, size)
       /\ SameElements(sequence_, Put(pre, op.i, op.v))
  /\ At(S5Updated, 0) = 5
  /\ At(S5Updated, 1) = 40
  /\ IntervalHeap(S5Updated, 5)

\* An element written on the wrong side of its interval and carried across.
C6_Witness ==
  /\ op.name = "update"
  /\ ~op.ex
  /\ size >= 7
  /\ op.i % 2 = 0
  /\ op.i >= 2
  /\ less(At(pre, 1), op.v)
  /\ maximum = op.v

\* C7: erase(i) at any valid position, the last slot and the slots 0 and 1
\* included, removes exactly the element that was at i, shrinks the size by
\* one and leaves a valid interval heap.
C7_Erase ==
  (op.name = "erase" /\ ~op.ex) =>
    /\ op.v = At(pre, op.i)
    /\ SameElements(Append(sequence_, At(pre, op.i)), pre)
    /\ size = Len(pre) - 1
    /\ IntervalHeap(sequence_, size)

C7_Witness ==
  /\ op.name = "erase"
  /\ ~op.ex
  /\ Len(pre) = MaxLen
  /\ op.i = MaxLen - 1
  /\ less(At(pre, 0), op.v)

\* C8: merge(range) and the range constructor that return normally leave the
\* previous elements plus one copy of every element of the range, arranged as
\* a valid interval heap, also for ranges of 0 and 1 elements and for an
\* empty deque.
C8_Merge ==
  (op.name \in {"merge", "construct"} /\ ~op.ex) =>
    /\ SameElements(sequence_, pre \o op.rng)
    /\ IntervalHeap(sequence_, size)

C8_Witness ==
  /\ op.name = "merge"
  /\ ~op.ex
  /\ Len(op.rng) = MaxMerge
  /\ size = MaxLen
  /\ sequence_ # pre \o op.rng

\* C9: make_interval_heap applied to an array of any length and arrangement
\* returns a permutation of the input that is_interval_heap accepts; for the
\* input of S1 it has 1 at index 0 and 9 at index 1.
C9_MakeIntervalHeap ==
  op.name = "make" =>
    /\ SameElements(sequence_, pre)
    /\ IntervalHeap(sequence_, size)
    /\ is_interval_heap(St(sequence_, 0), size)
    /\ pre = S1Input => (At(sequence_, 0) = 1 /\ At(sequence_, 1) = 9)

C9_Witness ==
  /\ op.name = "make"
  /\ Len(pre) = MaxArr
  /\ ~IntervalHeap(pre, Len(pre))
  /\ sequence_ # pre

\* C10: make_interval_heap followed by sort_interval_heap yields the array in
\* ascending order, the same array a reference comparison sort of the input
\* gives.
C10_SortRoundTrip ==
  op.name = "sort" =>
    /\ sequence_ = ReferenceSort(pre)
    /\ \A k \in 1..(size - 1) : ~less(sequence_[k + 1], sequence_[k])

C10_Witness ==
  /\ op.name = "sort"
  /\ Len(pre) = MaxArr
  /\ sequence_ # pre
  /\ less(sequence_[1], sequence_[MaxArr])

\* C11: make_interval_heap is idempotent: applied to the array it has just
\* produced it leaves every position unchanged, and so it does applied to any
\* input that is already a valid interval heap.
C11_MakeIdempotent ==
  /\ (op.name = "make_again") => (sequence_ = out)
  /\ (op.name = "make" /\ IntervalHeap(pre, Len(pre))) => (sequence_ = pre)

C11_Witness ==
  /\ op.name = "make_again"
  /\ Len(sequence_) = MaxArr
  /\ sequence_ # pre
  /\ \A v \in Values : Count(sequence_, v) > 0

\* C12: when the comparator throws during push or emplace, the deque is
\* position by position what it was before the call (same size, same
\* elements, still a valid heap); otherwise the value has been added.
C12_PushRollback ==
  (op.name \in {"push", "emplace"}) =>
    IF op.ex
      THEN sequence_ = pre /\ IntervalHeap(sequence_, size)
      ELSE SameElements(sequence_, Append(pre, op.v))

\* The comparator threw on its 3rd call or later, on a heap of MaxArr
\* elements.
C12_Witness ==
  /\ op.name = "push"
  /\ op.ex
  /\ Len(pre) = MaxArr
  /\ push_interval_heap(St(Append(pre, op.v), 3), Len(pre) + 1).ex
  /\ sequence_ = pre

\* C13: when the comparator throws during pop_minimum or pop_maximum, no
\* element is removed and the array is position by position what it was
\* before the call.
C13_PopRollback ==
  (op.name \in {"pop_minimum", "pop_maximum"}) =>
    IF op.ex
      THEN sequence_ = pre
      ELSE SameElements(Append(sequence_, op.v), pre)

C13_Witness ==
  /\ op.name = "pop_maximum"
  /\ op.ex
  /\ Len(pre) = MaxArr
  /\ pop_interval_heap_max(St(pre, 3), Len(pre)).ex
  /\ sequence_ = pre

\* C14: when the comparator throws during erase(i), the deque is position by
\* position what it was before the call.
C14_EraseRollback ==
  (op.name = "erase" /\ op.ex) => (sequence_ = pre)

C14_Witness ==
  /\ op.name = "erase"
  /\ op.ex
  /\ Len(pre) = MaxArr
  /\ op.i = 2
  /\ At(pre, op.i) # At(pre, MaxArr - 1)
  /\ pop_interval_heap(St(pre, 2), Len(pre), op.i).ex
  /\ sequence_ = pre

\* C15: when the comparator throws during the move form of update(i, v), the
\* deque is position by position what it was before the call and the
\* caller's variable holds v again.
C15_UpdateMoveRollback ==
  (op.name = "update_move" /\ op.ex) =>
    (sequence_ = pre /\ op.rng = <<op.v>>)

C15_Witness ==
  /\ op.name = "update_move"
  /\ op.ex
  /\ Len(pre) = MaxArr
  /\ At(pre, op.i) # op.v
  /\ update_interval_heap(St(Put(pre, op.i, op.v), 3), Len(pre), op.i).ex
  /\ sequence_ = pre
  /\ op.rng = <<op.v>>

\* C16: when the comparator throws during the rebuild of merge(range) or of
\* the range constructor, the deque holds exactly the elements it held
\* before the call.
C16_MergeRollback ==
  (op.name \in {"merge", "construct"} /\ op.ex) => SameElements(sequence_, pre)

\* C17: when push_back throws during push the deque is unchanged; when
\* pop_back throws during pop_minimum, pop_maximum or erase (and the
\* comparator does not throw), the deque has its size and elements of before
\* the call and is a valid interval heap.
C17_SequenceFailure ==
  /\ (op.name = "push_push_back_throws") => (sequence_ = pre)
  /\ (/\ op.name \in {"pop_minimum_pop_back_throws",
                      "pop_maximum_pop_back_throws",
                      "erase_pop_back_throws"}
      /\ ~op.ex) =>
       /\ size = Len(pre)
       /\ SameElements(sequence_, pre)
       /\ IntervalHeap(sequence_, size)

C17_Witness ==
  /\ op.name = "erase_pop_back_throws"
  /\ ~op.ex
  /\ Len(pre) = MaxArr
  /\ sequence_ # pre
  /\ IntervalHeap(sequence_, size)

\* The number of times is_interval_heap_until calls the comparator while it
\* examines index j of a, when no call throws.
ComparisonsAt(a, j) ==
  IF j % 2 = 1
    THEN IF less(At(a, j), At(a, j - 1)) \/ j < 2 THEN 1 ELSE 2
    ELSE IF j < 2 THEN 0
         ELSE IF less(At(a, 2 * ParentInterval(j \div 2) + 1), At(a, j))
                THEN 1 ELSE 2

\* The least i >= from whose prefix a[0..i] is not an interval heap, or
\* Len(a).
RECURSIVE FirstViolationFrom(_, _)
FirstViolationFrom(a, from) ==
  IF from = Len(a) \/ ~IntervalHeap(a, from + 1) THEN from
  ELSE FirstViolationFrom(a, from + 1)

FirstViolation(a) == FirstViolationFrom(a, 0)

\* C18: with a comparator that does not throw, is_interval_heap_until returns
\* the least index i such that the prefix a[0..i] is not an interval heap,
\* and n when there is none: a[0..result) is the longest prefix that is a
\* valid interval heap, and is_interval_heap is true exactly when the result
\* is n.
C18_IsIntervalHeapUntil ==
  (op.name = "until" /\ op.v = 0) =>
    /\ op.i \in 0..Len(sequence_)
    /\ op.i = FirstViolation(sequence_)
    /\ IntervalHeap(sequence_, op.i)
    /\ (op.i < Len(sequence_)) => ~IntervalHeap(sequence_, op.i + 1)
    /\ op.rng = <<op.i = Len(sequence_)>>
    /\ op.rng = <<IntervalHeap(sequence_, Len(sequence_))>>

\* The first violation is min nesting at an even index of the last level.
C18_Witness ==
  /\ op.name = "until"
  /\ op.v = 0
  /\ Len(sequence_) = MaxArr
  /\ op.i = MaxArr - 1
  /\ less(At(sequence_, op.i), At(sequence_, 2 * ParentInterval(op.i \div 2)))
  /\ ~less(At(sequence_, 2 * ParentInterval(op.i \div 2) + 1),
           At(sequence_, op.i))

\* The index that is being examined when the comparator makes its t-th call
\* on a, counting from index i on; Len(a) when the t-th call is never made
\* because the scan ends at the first violation or at the end.
RECURSIVE ThrowIndexFrom(_, _, _)
ThrowIndexFrom(a, t, i) ==
  IF i >= Len(a) THEN Len(a)
  ELSE IF t <= ComparisonsAt(a, i) THEN i
  ELSE IF ~IntervalHeap(a, i + 1) THEN Len(a)
  ELSE ThrowIndexFrom(a, t - ComparisonsAt(a, i), i + 1)

ThrowIndex(a, t) == ThrowIndexFrom(a, t, 0)

\* C19: when the comparator throws while index i is examined,
\* is_interval_heap_until returns i and is_interval_heap returns false
\* instead of letting the exception out, and the array is not modified.
\* When the t-th call is never made the results are those of C18.
C19_UntilNoThrow ==
  (op.name = "until" /\ op.v > 0) =>
    /\ sequence_ = pre
    /\ IF ThrowIndex(sequence_, op.v) < Len(sequence_)
         THEN op.i = ThrowIndex(sequence_, op.v) /\ op.rng = <<FALSE>>
         ELSE /\ op.i = FirstViolation(sequence_)
              /\ op.rng = <<op.i = Len(sequence_)>>

\* The comparator throws inside a valid heap, before the end is reached.
C19_Witness ==
  /\ op.name = "until"
  /\ op.v = MaxThrow
  /\ Len(sequence_) = MaxArr
  /\ IntervalHeap(sequence_, Len(sequence_))
  /\ op.i < Len(sequence_)
  /\ op.i >= 4
  /\ op.rng = <<FALSE>>

\* C20: pop_interval_heap_max on a range of 0, 1 or 2 elements leaves the
\* array unchanged and calls the comparator not even once (a comparator that
\* throws on its first call does not throw).
C20_PopMaxSmall ==
  (op.name = "pop_max" /\ Len(pre) <= 2) => (sequence_ = pre /\ ~op.ex)

C20_Witness ==
  /\ op.name = "pop_max"
  /\ op.v = 1
  /\ pre = <<1, 3>>
  /\ sequence_ = pre
  /\ ~op.ex

\* C21: pop_interval_heap_min on an empty range is a no-op: no slot of the
\* buffer the range lies in is read or written, so the buffer is as it was.
C21_PopMinEmpty ==
  op.name = "pop_min_empty" => sequence_ = pre

\* C22: pop_interval_heap at any offset i of a valid heap of n >= 1 elements
\* ends with the element that was at i in slot n-1, with the first n-1 slots
\* a valid interval heap, and with the range a permutation of the input.
C22_PopAt ==
  op.name = "pop_at" =>
    /\ At(sequence_, Len(sequence_) - 1) = At(pre, op.i)
    /\ IntervalHeap(sequence_, Len(sequence_) - 1)
    /\ SameElements(sequence_, pre)

C22_Witness ==
  /\ op.name = "pop_at"
  /\ op.i = 1
  /\ pre = <<1, 3, 1, 2, 2, 3, 1>>
  /\ sequence_ # Swap(pre, 1, 6)
  /\ At(sequence_, 6) = 3

\* C23: push_interval_heap on n >= 1 slots whose first n-1 are a valid
\* interval heap leaves all n slots a valid interval heap holding the same
\* elements, whether the new element starts an interval (n odd) or completes
\* one (n even), n = 1, 2, 3 included.
C23_PushHeap ==
  op.name = "push_heap" =>
    /\ IntervalHeap(sequence_, Len(sequence_))
    /\ SameElements(sequence_, pre)

C23_Witness ==
  /\ op.name = "push_heap"
  /\ pre = <<2, 3, 2, 1>>
  /\ sequence_ = <<1, 3, 2, 2>>

\* C24: swap exchanges the backing sequences and the comparators of the two
\* deques: after one swap each deque has the sequence and the ordering the
\* other had before (and with them its size, its elements in array order,
\* its minimum and its maximum), and after two swaps both deques are as they
\* were.
C24_SwapExchanges ==
  /\ (op.name = "swap" /\ op.i = 1) =>
       /\ [sequence_ |-> sequence_, compare_ |-> compare_] = pre[2]
       /\ other = pre[1]
  /\ (op.name = "swap" /\ op.i = 2) =>
       /\ [sequence_ |-> sequence_, compare_ |-> compare_] = pre[1]
       /\ other = pre[2]

\* C25: size() counts the calls since construction or the last clear: every
\* push or emplace adds one to it, a merge adds the length of its range,
\* every pop_minimum, pop_maximum and erase takes one off, and clear sets it
\* to zero; empty() is true exactly when size() is 0; a push onto the empty
\* deque, which is what clear leaves, gives a valid heap.
C25_SizeAccounting ==
  /\ empty <=> size = 0
  /\ op.name \in {"push", "emplace"} => size = Len(pre) + 1
  /\ op.name = "merge" => size = Len(pre) + Len(op.rng)
  /\ op.name = "construct" => size = Len(op.rng)
  /\ op.name \in {"pop_minimum", "pop_maximum", "erase"} => size = Len(pre) - 1
  /\ op.name = "clear" => size = 0 /\ empty
  /\ (op.name \in {"push", "emplace"} /\ pre = << >>) =>
       IntervalHeap(sequence_, size)

C25_Witness ==
  /\ op.name = "clear"
  /\ Len(pre) = MaxLen
  /\ size = 0
  /\ empty

\* C27: in the adaptor of priority_deque.hpp, set at any position of a valid
\* deque, with any value, leaves a deque on which is_valid_until returns
\* end().
C27_SetValid ==
  (op.name = "set" /\ is_valid_until(pre) = Len(pre)) =>
    is_valid_until(sequence_) = Len(sequence_)

\* C28: in the adaptor of priority_deque.hpp, after merge of a range, and
\* after construction from a range (the same insert and make_valid on an
\* empty sequence), is_valid_until returns end(), for every arrangement and
\* length, odd sizes with a singleton last interval included.
C28_MakeValid ==
  op.name = "merge" => is_valid_until(sequence_) = Len(sequence_)

\* C29: in the adaptor of priority_deque.hpp, starting from empty, after any
\* sequence of push, pop_maximum, pop_minimum and erase calls is_valid_until
\* returns end().
C29_PushPopValid ==
  is_valid_until(sequence_) = Len(sequence_)

C29_Witness ==
  /\ op.name = "erase"
  /\ op.i = 1
  /\ Len(sequence_) = 5
  /\ sequence_ # pop_back(pre)
  /\ is_valid_until(pre) = Len(pre)
  /\ is_valid_until(sequence_) = Len(sequence_)

\* C30: in the adaptor of priority_deque.hpp, after any sequence of push,
\* set, erase, merge, pop_maximum and pop_minimum that leaves the deque
\* non-empty, maximum() returns a greatest stored element and minimum() a
\* least stored element.
C30_HppExtrema ==
  ~empty => /\ IsGreatest(hpp_maximum, sequence_)
            /\ IsLeast(hpp_minimum, sequence_)

\* C40: when the comparator throws during the copy form of update(i, v), the
\* deque keeps its size and its array is the array of before the call with
\* slot i alone overwritten by v: the sift is rolled back, the displaced
\* element is not restored.
C40_UpdateCopyThrow ==
  (op.name = "update" /\ op.ex) =>
    /\ Len(sequence_) = Len(pre)
    /\ sequence_ = Put(pre, op.i, op.v)

\* update(i, v) of a full-size deque threw after the sift had moved elements
\* (the call makes three comparisons or more), v differs from the element it
\* displaced, and the array left behind is not a valid heap.
C40_Witness ==
  /\ op.name = "update" /\ op.ex
  /\ Len(pre) = MaxArr
  /\ At(pre, op.i) # op.v
  /\ update_interval_heap(St(Put(pre, op.i, op.v), 3), Len(pre), op.i).ex
  /\ sequence_ = Put(pre, op.i, op.v)
  /\ ~IntervalHeap(sequence_, Len(sequence_))

\* C33: when the comparator throws on any comparison of
\* sift_up<side>(i, L), the array is restored position by position to its
\* contents at entry before the exception is re-raised.
C33_SiftUpRollback ==
  (op.name = "sift_up" /\ op.ex) => sequence_ = pre

\* sift_up from the last layer of a MaxDeep-element array threw on its
\* second comparison, after the loop had moved a different element down
\* from the parent, and the array is the input again.
C33_Witness ==
  /\ op.name = "sift_up" /\ op.ex
  /\ Len(pre) = MaxDeep
  /\ op.rng = <<2, 2>>
  /\ op.v # op.i
  /\ At(pre, op.v) # At(pre, op.i)
  /\ sequence_ = pre

\* C34: when the comparator throws at any point of sift_down<side>(i, L)
\* (in the descent loop, at the comparison with the singleton, or inside
\* the final sift_leaf / sift_up), the array is restored to its contents at
\* entry, also when the last step crossed to a singleton.
C34_SiftDownRollback ==
  (op.name = "sift_down" /\ op.ex) => sequence_ = pre

\* sift_down<false> from the root's max bound of a MaxDeep-element array
\* descended one step to the left child, exchanged with the singleton in
\* the last slot, threw inside sift_leaf_min, and the array is the input
\* again although three slots had changed.
C34_Witness ==
  /\ op.name = "sift_down" /\ op.ex
  /\ Len(pre) = MaxDeep
  /\ op.i = 1
  /\ op.rng[2] >= 3
  /\ sift_down_loop(FALSE, St(Put(pre, 1, Hole), 0), 1, At(pre, 1),
                    sift_down_end_parent(FALSE, Len(pre))).index = 3
  /\ Child(3, FALSE) + 1 = Len(pre) - 1
  /\ less(At(pre, Child(3, FALSE)), At(pre, Child(3, FALSE) + 1))
  /\ less(At(pre, 1), At(pre, 3))
  /\ sequence_ = pre

\* Interval k is interval root or one of its descendants.
RECURSIVE InSubtree(_, _)
InSubtree(k, root) ==
  \/ k = root
  \/ k > root /\ InSubtree(ParentInterval(k), root)

\* C35: the two sift_down calls that make_full issues for the interval
\* (i, i+1), with limit 2*(i+1), modify only slots i, i+1 and slots of
\* descendant intervals: every slot below i and every slot of a sibling
\* subtree is unchanged.
C35_MakeFullFrame ==
  op.name = "make_full_iteration" =>
    \A k \in 0..(Len(pre) - 1) :
      ~InSubtree(k \div 2, op.i \div 2) => At(sequence_, k) = At(pre, k)

\* The iteration for the interval (2, 3) of a MaxDeep-element array changed
\* a slot of a descendant interval, and the array has slots below 2 and a
\* sibling subtree.
C35_Witness ==
  /\ op.name = "make_full_iteration"
  /\ Len(pre) = MaxDeep
  /\ op.i = 2
  /\ \E k \in 6..(Len(pre) - 1) :
       InSubtree(k \div 2, 1) /\ At(sequence_, k) # At(pre, k)

\* C36: when the comparator throws during make_interval_heap, the exception
\* leaves the call and the range is afterwards a permutation of the input:
\* on the single-threaded path (make_full), and on the threaded path that
\* a range of more than kThreadMin elements takes (make_block).
C36_MakeThrowPermutation ==
  /\ (op.name = "make_throwing" /\ op.ex) => SameElements(sequence_, pre)
  /\ Len(pre) > kThreadMin =>
       /\ op.name # "terminate"
       /\ (op.name = "make_block" /\ op.ex) => SameElements(sequence_, pre)

\* No two elements of a are ordered by the comparator.
AllEquivalent(a) == \A j, k \in DOMAIN a : ~less(a[j], a[k])

\* Slot q is on the same-side parent chain from slot from up to slot to
\* (from excluded, to included).
RECURSIVE OnPath(_, _, _, _)
OnPath(q, from, to, left_bound) ==
  /\ from > to
  /\ \/ q = Parent(from, left_bound)
     \/ OnPath(q, Parent(from, left_bound), to, left_bound)

\* C37: sift_up never moves an element past a same-side parent it is
\* equivalent to: every parent it passed was strictly on the other side of
\* it.  On an array whose elements are all equivalent sift_up (the upward
\* phase of push_interval_heap and update_interval_heap) stops where it
\* started, and every routine leaves a valid heap with every element in
\* place.
C37_EquivalentNotPassed ==
  /\ (op.name = "sift_up" /\ ~op.ex) =>
       \A q \in 0..(Len(pre) - 1) :
         OnPath(q, op.i, op.v, out[1]) =>
           IF out[1] THEN less(At(pre, op.i), At(pre, q))
                     ELSE less(At(pre, q), At(pre, op.i))
  /\ (op.name = "sift_up" /\ AllEquivalent(pre)) => op.v = op.i
  /\ (op.name # "input" /\ AllEquivalent(pre)) =>
       /\ sequence_ = pre
       /\ IntervalHeap(sequence_, Len(sequence_))

\* sift_up<true> from slot 8 of a MaxDeep-element array whose elements are
\* all equal compared the element with its parent and left it in place.
C37_Witness ==
  /\ op.name = "sift_up" /\ ~op.ex
  /\ out = <<TRUE>>
  /\ Len(pre) = MaxDeep
  /\ AllEquivalent(pre)
  /\ op.i = 8 /\ op.rng[1] = 2
  /\ op.v = op.i
  /\ sequence_ = pre

\* Every run left the outer slots as they were filled and the same range.
OuterSlotsUntouched ==
  \A g \in GuardSlots : out[1][g] = <<g[1], g[2]>> \o sequence_ \o <<g[3], g[4]>>

Stepping(b) ==
  /\ \A c \in thread_branch(b, Len(sequence_)) \cup make_block_calls(b, Len(sequence_)) :
       Returned(c)
  /\ ~Returned(b)

\* The array after the next iteration of the call b on the array a.
AfterStep(a, b) == make_block_iteration(St(a, 0), Len(a), b, blocks[b]).a

\* The slots in which the arrays a and c differ.
Changed(a, c) == {k \in DOMAIN a : a[k] # c[k]}

\* C31: in make_block, two calls that run concurrently (the one of
\* thread_branch and the caller's own, and the calls under them) read and
\* write disjoint slots: their iterations change different slots and each
\* writes the same values whether or not the other has run before it.  A
\* call starts its layer loop only after the calls it made have returned and
\* its thread is joined.
C31_DisjointBlocks ==
  op.name = "make_block" =>
    /\ \A b \in DOMAIN blocks :
         blocks[b] < make_block_first(b, Len(sequence_)) =>
           \A c \in thread_branch(b, Len(sequence_)) \cup make_block_calls(b, Len(sequence_)) :
             Returned(c)
    /\ \A b, c \in {d \in DOMAIN blocks : Stepping(d)} :
         b # c =>
           LET after_b == AfterStep(sequence_, b)
               after_c == AfterStep(sequence_, c)
           IN /\ Changed(sequence_, after_b) \cap Changed(sequence_, after_c) = {}
              /\ AfterStep(after_c, b) =
                   [k \in DOMAIN sequence_ |->
                      IF after_b[k] # sequence_[k] THEN after_b[k] ELSE after_c[k]]

\* On a MaxDeep-element array with four threads, a call that has branched
\* and joined and a call on another thread can both run an iteration, and
\* each iteration changes the array.
C31_Witness ==
  /\ op.name = "make_block" /\ ~op.ex
  /\ Len(pre) = MaxDeep
  /\ \E b, c \in DOMAIN blocks :
       /\ b # c
       /\ Stepping(b) /\ Stepping(c)
       /\ make_block_branches(b, Len(sequence_))
       /\ Changed(sequence_, AfterStep(sequence_, b)) # {}
       /\ Changed(sequence_, AfterStep(sequence_, c)) # {}

\* C39: make_block (first, last, compare, 0, 2, threads) on an array of at
\* least two elements leaves a valid interval heap that is a permutation of
\* the input, the very array make_full leaves, however many times it
\* branches and in whatever order the calls on different threads run.
C39_MakeBlock ==
  (op.name = "make_block" /\ ~op.ex /\ \A b \in DOMAIN blocks : Returned(b)) =>
    /\ IntervalHeap(sequence_, Len(sequence_))
    /\ SameElements(sequence_, pre)
    /\ sequence_ = make_full(St(pre, 0), Len(pre)).a

\* make_block has returned on a MaxDeep-element array that was not a heap,
\* after branching at the root and below it.
C39_Witness ==
  /\ op.name = "make_block" /\ ~op.ex
  /\ \A b \in DOMAIN blocks : Returned(b)
  /\ Len(pre) = MaxDeep
  /\ ~IntervalHeap(pre, Len(pre))
  /\ Cardinality({b \in DOMAIN blocks : make_block_branches(b, Len(pre))}) >= 2
  /\ IntervalHeap(sequence_, Len(sequence_))

====
